---- MODULE Spec2Model ----
(***************************************************************************)
(* Model of simtools/sim_readers.py: GadgetBox.reorder_subfiles and        *)
(* GadgetSnapshot (__init__, read_snapshot, read_hdf5_snapshot with its    *)
(* read_files / stack closures, read_binary_snapshot).                     *)
(*                                                                         *)
(* Arrays are sequences.  A row of a per-particle array is the source      *)
(* particle it was read from, <<sub-file, row in that sub-file>>, so that  *)
(* order, duplication and provenance of rows are what the model tracks.    *)
(* Values are tagged records [k, v, m]: k the Python type ("none", "arr",  *)
(* "list", "scalar"), v the payload, m how often the array was multiplied  *)
(* by sqrt(1 + redshift).                                                  *)
(***************************************************************************)
EXTENDS Integers, Sequences, FiniteSets, TLC

VARIABLES
    pc,             \* position in GadgetSnapshot.__init__ / read_snapshot
    matched,        \* glob.glob(snapshot_filename): the matched paths
    snapshot_files, \* the local snapshot_files of __init__
    has_snap,       \* self.has_snap ("unset" before it is assigned)
    warned,         \* warnings emitted so far
    raised,         \* the exception that left the constructor, or "none"
    opened,         \* indices of the sub-files read_snapshot has opened
    cfg,            \* the constructor arguments
    files,          \* contents of the sub-files, in the order of fnames
    snapdata,       \* read_hdf5_snapshot: the per-sub-file results
    arrival,        \* pool: task indices in the order the workers finish
    self,           \* particle attributes set on the instance
    params,         \* attributes set by GadgetBox: the units and read_parameters
    seeks           \* read_binary_snapshot: the np.fromfile calls on the blocks

vars == <<pc, matched, snapshot_files, has_snap, warned, raised, opened,
          cfg, files, snapdata, arrival, self, params, seeks>>

----------------------------------------------------------------------------
(* Bounds *)

MaxMatch == 3      \* most paths a pattern matches
MaxFiles == 2      \* most sub-files of a snapshot that is read
MaxPart == 3       \* most particles of the target type in a snapshot
BoxSize == 10      \* box_size of the snapshot header

----------------------------------------------------------------------------
(* Generic sequence helpers (numpy primitives) *)

Range(s) == {s[i] : i \in 1..Len(s)}

RECURSIVE Concat(_)
\* np.concatenate / np.hstack of a list of arrays
Concat(ss) == IF ss = <<>> THEN <<>> ELSE Head(ss) \o Concat(Tail(ss))

RECURSIVE CumSum(_)
\* np.cumsum
CumSum(s) ==
    IF s = <<>> THEN <<>>
    ELSE LET p == CumSum(SubSeq(s, 1, Len(s) - 1))
         IN  Append(p, (IF p = <<>> THEN 0 ELSE p[Len(p)]) + s[Len(s)])

\* arr[inds]: fancy indexing with 0-based indices
Take(arr, inds) == [k \in 1..Len(inds) |-> arr[inds[k] + 1]]

\* np.split(arr, cuts): Len(cuts) + 1 pieces, the last one running to the end
Split(arr, cuts) ==
    [i \in 1..(Len(cuts) + 1) |->
        LET lo == IF i = 1 THEN 0 ELSE cuts[i - 1]
            hi == IF i = Len(cuts) + 1 THEN Len(arr) ELSE cuts[i]
        IN  SubSeq(arr, lo + 1, hi)]

\* x[:-1]
DropLast(s) == SubSeq(s, 1, Len(s) - 1)

Min2(a, b) == IF a < b THEN a ELSE b

\* the permutations of 1..n
Perms(n) == {p \in [1..n -> 1..n] : \A i, j \in 1..n : i # j => p[i] # p[j]}

----------------------------------------------------------------------------
(* SubfileLocator: GadgetBox.reorder_subfiles.  A path is a sequence of    *)
(* characters.                                                             *)

Digits == {"0", "1", "2"}

DigitVal == ("0" :> 0) @@ ("1" :> 1) @@ ("2" :> 2)

\* str.split("."): the columns of a path
StrSplit(s) ==
    LET RECURSIVE go(_, _, _)
        go(i, cur, acc) ==
            IF i > Len(s) THEN Append(acc, cur)
            ELSE IF s[i] = "." THEN go(i + 1, <<>>, Append(acc, cur))
            ELSE go(i + 1, Append(cur, s[i]), acc)
    IN  go(1, <<>>, <<>>)

\* str.isdigit(): non-empty and every character a digit
IsDigit(x) == Len(x) > 0 /\ \A i \in 1..Len(x) : x[i] \in Digits

RECURSIVE ToInt(_)
\* int(x) of an all-digit string
ToInt(x) == IF x = <<>> THEN 0
            ELSE 10 * ToInt(SubSeq(x, 1, Len(x) - 1)) + DigitVal[x[Len(x)]]

\* np.array([f.split(".") for f in subfiles]) is a 2-d array only when all
\* rows have the same length; a ragged list raises ValueError
Ragged(splt) == \E i, j \in 1..Len(splt) : Len(splt[i]) # Len(splt[j])

\* the while loop of reorder_subfiles: the 1-based column the loop stops at
\* with found_subfiles true, or 0 when it runs off the end
FoundColumn(splt) ==
    LET ncol == Len(splt[1])
        allDigit(c) == \A r \in 1..Len(splt) : IsDigit(splt[r][c])
        cand == {c \in 1..ncol : allDigit(c)}
    IN  IF cand = {} THEN 0
        ELSE CHOOSE c \in cand : \A d \in cand : c <= d

\* np.argsort(subnums): the index orders that sort subnums ascending (the
\* default kind is not stable, so equal keys may come out in either order)
ArgSorts(subnums) ==
    {p \in Perms(Len(subnums)) :
        \A i \in 1..(Len(subnums) - 1) : subnums[p[i]] <= subnums[p[i + 1]]}

\* reorder_subfiles sorting the column as text instead of as integers
reorder_subfiles_Lexicographic(subfiles) ==
    LET splt == [r \in 1..Len(subfiles) |-> StrSplit(subfiles[r])]
        c == IF Ragged(splt) THEN 0 ELSE FoundColumn(splt)
        \* the text order of two digit strings: by the first differing digit
        lexLeq(x, y) ==
            \/ \E i \in 1..Min2(Len(x), Len(y)) :
                  /\ \A q \in 1..(i - 1) : x[q] = y[q]
                  /\ DigitVal[x[i]] < DigitVal[y[i]]
            \/ /\ Len(x) <= Len(y)
               /\ \A q \in 1..Len(x) : x[q] = y[q]
    IN  IF c = 0
        THEN {[k |-> "raise", v |-> <<>>,
               msg |-> "ValueError: Multiple files consistent with"]}
        ELSE {[k |-> "ok", msg |-> "",
               v |-> [i \in 1..Len(subfiles) |-> subfiles[p[i]]]] :
                 p \in {q \in Perms(Len(subfiles)) :
                          \A i \in 1..(Len(subfiles) - 1) :
                             lexLeq(splt[q[i]][c], splt[q[i + 1]][c])}}

\* reorder_subfiles returning the paths as matched when it finds no column
reorder_subfiles_NoRaise(subfiles) ==
    LET splt == [r \in 1..Len(subfiles) |-> StrSplit(subfiles[r])]
        c == IF Ragged(splt) THEN 0 ELSE FoundColumn(splt)
    IN  IF c = 0 THEN {[k |-> "ok", msg |-> "", v |-> subfiles]}
        ELSE {[k |-> "ok", msg |-> "",
               v |-> [i \in 1..Len(subfiles) |-> subfiles[p[i]]]] :
                 p \in ArgSorts([r \in 1..Len(subfiles) |-> ToInt(splt[r][c])])}

\* reorder_subfiles(filename, subfiles): the possible outcomes
reorder_subfiles(subfiles) ==
    LET splt == [r \in 1..Len(subfiles) |-> StrSplit(subfiles[r])]
    IN  IF Ragged(splt)
        THEN {[k |-> "raise", v |-> <<>>, msg |-> "ValueError: Multiple files consistent with"]}
        ELSE LET c == FoundColumn(splt)
             IN  IF c = 0
                 THEN {[k |-> "raise", v |-> <<>>,
                        msg |-> "ValueError: Multiple files consistent with"]}
                 ELSE LET subnums == [r \in 1..Len(subfiles) |-> ToInt(splt[r][c])]
                      IN  {[k |-> "ok", msg |-> "",
                            v |-> [i \in 1..Len(subfiles) |-> subfiles[p[i]]]] :
                              p \in ArgSorts(subnums)}

----------------------------------------------------------------------------
(* RegionSelector *)

Abs(x) == IF x < 0 THEN -x ELSE x

\* the ascending sequence of a finite set of integers
RECURSIVE SortedSeq(_)
SortedSeq(S) ==
    IF S = {} THEN <<>>
    ELSE LET x == CHOOSE y \in S : \A z \in S : y <= z
         IN  <<x>> \o SortedSeq(S \ {x})

\* simtools.utils.recenter_coordinates(d, L), one component: the
\* displacement wrapped into [-L/2, L/2)
RecenterComp(d, L) == d - L * ((2 * d + L) \div (2 * L))

recenter_coordinates(d, L) == [c \in 1..3 |-> RecenterComp(d[c], L)]

\* simtools.utils.vector_norm(v), squared
Norm2(v) == v[1] * v[1] + v[2] * v[2] + v[3] * v[3]

Sub(a, b) == [c \in 1..3 |-> a[c] - b[c]]

\* r <= rad
RadiusTest_Inclusive(n2, rad) == rad >= 0 /\ n2 <= rad * rad

\* r < rad for r = sqrt(n2) >= 0
RadiusTest(n2, rad) == rad > 0 /\ n2 < rad * rad

\* np.argwhere(r < rad).flatten() of the hierarchical brute-force branch:
\* the 0-based indices, ascending
BruteInds(coords, pos, rad, L) ==
    SortedSeq({j \in 0..(Len(coords) - 1) :
        RadiusTest(Norm2(recenter_coordinates(Sub(coords[j + 1], pos), L)), rad)})

\* np.argwhere(r < region_radii[0]).flatten() of the binary path
BinaryInds(coords, pos, rad) ==
    SortedSeq({j \in 0..(Len(coords) - 1) :
        RadiusTest(Norm2(Sub(coords[j + 1], pos)), rad)})

\* KDTree(coords, boxsize=B) refuses data outside [0, B)
KDTreeRaises(coords, B) ==
    \E j \in 1..Len(coords) : \E c \in 1..3 : coords[j][c] < 0 \/ coords[j][c] >= B

\* the distance of a periodic KDTree of box B, one component, data and
\* query point inside [0, B)
KDComp(d, B) == Min2(Abs(d) % B, B - (Abs(d) % B))

\* kdtree.query_ball_point(pos, rad) of a multi-point query: the indices
\* within the closed ball, sorted
KDInds(coords, pos, rad, B) ==
    SortedSeq({j \in 0..(Len(coords) - 1) :
        LET d == Sub(coords[j + 1], pos)
            n2 == KDComp(d[1], B) * KDComp(d[1], B)
                  + KDComp(d[2], B) * KDComp(d[2], B)
                  + KDComp(d[3], B) * KDComp(d[3], B)
        IN  rad >= 0 /\ n2 <= rad * rad})

----------------------------------------------------------------------------
(* Tagged values *)

None == [k |-> "none", v |-> <<>>, m |-> 0]

Arr(rows) == [k |-> "arr", v |-> rows, m |-> 0]

List(arrs) == [k |-> "list", v |-> arrs, m |-> 0]

Scalar(x) == [k |-> "scalar", v |-> <<x>>, m |-> 0]

Raise(e) == [k |-> "raise", v |-> <<e>>, m |-> 0]

\* the rows of one dataset of sub-file f: row j is particle <<f, j>>
Dataset(f) == [j \in 1..Len(files[f].coords) |-> <<f, j>>]

\* [np.array([])] * nc
EmptyList(nc) == List([i \in 1..nc |-> <<>>])

----------------------------------------------------------------------------
(* HierarchicalReader: read_files(ii) of read_hdf5_snapshot *)

HasRegion == cfg.regions # <<>>

NRegions == Len(cfg.regions)

\* region_inds with a particle left out of every region after the first
\* that selects it
RegionInds_Merged(f) ==
    LET coords == files[f].coords
        sel(i) == BruteInds(coords, cfg.regions[i].pos, cfg.regions[i].rad,
                            BoxSize)
    IN  [i \in 1..NRegions |->
            SortedSeq({j \in Range(sel(i)) :
                         \A q \in 1..(i - 1) : j \notin Range(sel(q))})]

\* region_inds before np.hstack: one index list per query center
RegionInds(f) ==
    LET coords == files[f].coords
    IN  [i \in 1..NRegions |->
            IF cfg.use_kdtree
            THEN KDInds(coords, cfg.regions[i].pos, cfg.regions[i].rad,
                        BoxSize * (1 + cfg.buffer))
            ELSE BruteInds(coords, cfg.regions[i].pos, cfg.regions[i].rad,
                           BoxSize)]

\* region_lens = [len(inds) for inds in region_inds]
RegionLens(region_inds) == [i \in 1..Len(region_inds) |-> Len(region_inds[i])]

\* np.unique(region_inds): the distinct indices, ascending
UniqueInds(flat) == SortedSeq(Range(flat))

\* the inverse map of np.unique(..., return_inverse=True), 0-based
InverseInds(flat) ==
    LET u == UniqueInds(flat)
    IN  [k \in 1..Len(flat) |-> (CHOOSE q \in 1..Len(u) : u[q] = flat[k]) - 1]

\* dataset[region_inds_bool]: the rows whose mask entry is set, in row order
MaskRows(f, flat) ==
    LET uniq == Range(UniqueInds(flat))
        mask == [j \in 1..Len(files[f].coords) |-> (j - 1) \in uniq]
    IN  Take(Dataset(f), SortedSeq({j \in 0..(Len(mask) - 1) : mask[j + 1]}))

\* read_mode 1: dataset[()][region_inds]
IndexDirect(f, flat) == Take(Dataset(f), flat)

\* read_mode 2: dataset[region_inds_bool][inv]
IndexUnique(f, flat) == Take(MaskRows(f, flat), InverseInds(flat))

\* read_mode 2 for the velocities: the (num_part, 3) mask selects the
\* components of the marked rows in row-major order, reshape puts every three
\* of them into a row, and [inv] expands the rows; a row made of the three
\* components of one particle is that particle
IndexUniqueVec(f, flat) ==
    LET rows == MaskRows(f, flat)
        elems == Concat([r \in 1..Len(rows) |-> [c \in 1..3 |-> <<rows[r], c>>]])
        n == Len(UniqueInds(flat))
        row(t) == IF \A c \in 1..3 : t[c] = <<t[1][1], c>>
                  THEN t[1][1] ELSE <<0, 0>>
    IN  Take([r \in 1..n |-> row(SubSeq(elems, 3 * r - 2, 3 * r))],
             InverseInds(flat))

\* a one-column dataset indexed under read_mode mode
IndexByMode(mode, f, flat) ==
    IF mode = 1 THEN IndexDirect(f, flat) ELSE IndexUnique(f, flat)

\* np.split(x, np.cumsum(region_lens))[:-1]
SplitRegions(x, lens) == List(DropLast(Split(x, CumSum(lens))))

\* one dataset read under a region query in read_mode mode
RegionReadMode(mode, f, flat, lens) ==
    SplitRegions(IndexByMode(mode, f, flat), lens)

\* the velocities read under a region query in read_mode mode
RegionVelsMode(mode, f, flat, lens) ==
    SplitRegions(IF mode = 1 THEN IndexDirect(f, flat)
                 ELSE IndexUniqueVec(f, flat), lens)

\* one dataset read under a region query: index it by the read mode, then
\* np.split(x, np.cumsum(region_lens))[:-1]
RegionRead(f, flat, lens) == RegionReadMode(cfg.read_mode, f, flat, lens)

\* a dataset that is read whenever it is asked for: the whole of it without
\* a region query, the per-region pieces with one
ReadField(f, flat, lens) ==
    IF HasRegion THEN RegionRead(f, flat, lens) ELSE Arr(Dataset(f))

\* coords = np.split(coords[region_inds], np.cumsum(region_lens))[:-1]
RegionCoords(f, flat, lens) ==
    List(DropLast(Split(Take(Dataset(f), flat), CumSum(lens))))

\* the Density block: in read_mode 1 under a region query the code indexes
\* formation_times (None, or already a list) instead of densities
ReadDensityMode(mode, f, flat, lens) ==
    IF ~HasRegion THEN Arr(Dataset(f))
    ELSE IF mode = 1 THEN Raise("TypeError")
    ELSE RegionReadMode(mode, f, flat, lens)

ReadDensity(f, flat, lens) == ReadDensityMode(cfg.read_mode, f, flat, lens)

\* the tuple returned when no particle matches any query
EmptyResult(f) ==
    LET nc == NRegions
    IN  [k |-> "tuple", m |-> 0,
         v |-> << EmptyList(nc), EmptyList(nc), EmptyList(nc), EmptyList(nc),
                  IF "Metallicity" \in files[f].has THEN EmptyList(nc) ELSE None,
                  IF "StellarFormationTime" \in files[f].has
                  THEN EmptyList(nc) ELSE None >>]

\* read_files(ii): the tuple returned for sub-file f, or the exception
read_files(f) ==
    LET has == files[f].has
        region_inds == IF HasRegion /\ ~(cfg.use_kdtree /\ KDTreeRaises(
                              files[f].coords, BoxSize * (1 + cfg.buffer)))
                       THEN RegionInds(f) ELSE <<>>
        lens == RegionLens(region_inds)
        flat == Concat(region_inds)
        field == ReadField(f, flat, lens)
        ids == IF cfg.load_ids THEN field ELSE None
        coords == IF cfg.load_coords
                  THEN (IF HasRegion THEN RegionCoords(f, flat, lens)
                        ELSE Arr(Dataset(f)))
                  ELSE None
        vels == IF ~cfg.load_vels THEN None
                ELSE IF HasRegion
                THEN RegionVelsMode(cfg.read_mode, f, flat, lens)
                ELSE Arr(Dataset(f))
        masses == IF cfg.load_masses
                  THEN (IF "Masses" \in has THEN field
                        ELSE Scalar(files[f].mass_table))
                  ELSE None
        metallicities == IF "Metallicity" \in has THEN field ELSE None
        formation_times ==
            IF "StellarFormationTime" \in has THEN field ELSE None
        densities == IF "Density" \in has THEN ReadDensity(f, flat, lens)
                     ELSE None
        internal_energies == IF "InternalEnergy" \in has THEN field ELSE None
    IN  IF HasRegion /\ cfg.use_kdtree
           /\ KDTreeRaises(files[f].coords, BoxSize * (1 + cfg.buffer))
        THEN Raise("ValueError")
        ELSE IF HasRegion /\ Len(flat) = 0 THEN EmptyResult(f)
        ELSE IF densities.k = "raise" THEN densities
        ELSE [k |-> "tuple", m |-> 0,
              v |-> << ids, coords, vels, masses, metallicities,
                       formation_times, densities, internal_energies >>]

----------------------------------------------------------------------------
(* ParallelMergeEngine: the collection of the per-sub-file results and     *)
(* stack(index) of read_hdf5_snapshot                                      *)

NFiles == Len(files)

\* a pool whose results are collected as the workers finish
PoolMap_ByArrival(arr) == [k \in 1..NFiles |-> read_files(arr[k])]

\* Pool(npool).map(read_files, np.arange(len(fnames))): the results in the
\* order of the task indices, whatever the order the workers finished in
PoolMap(arr) == [i \in 1..NFiles |-> read_files(i)]

\* the exception map re-raises: that of the first failed task to arrive, or
\* "none"
FirstRaise(results, order) ==
    IF \E k \in 1..Len(order) : results[order[k]].k = "raise"
    THEN LET k == CHOOSE j \in 1..Len(order) :
                    /\ results[order[j]].k = "raise"
                    /\ \A q \in 1..(j - 1) : results[order[q]].k # "raise"
         IN  results[order[k]].v[1]
    ELSE "none"

\* x[index] for every x of snapdata, taken from the last sub-file backwards
Column_Reversed(sd, index) ==
    IF \E i \in 1..Len(sd) : Len(sd[i].v) < index + 1 THEN Raise("IndexError")
    ELSE List([i \in 1..Len(sd) |-> sd[Len(sd) + 1 - i].v[index + 1]])

\* x[index] for every x of snapdata, or the exception the access raises
\* (index is 0-based, as in the code)
Column(sd, index) ==
    IF \E i \in 1..Len(sd) : Len(sd[i].v) < index + 1 THEN Raise("IndexError")
    ELSE List([i \in 1..Len(sd) |-> sd[i].v[index + 1]])

\* region ri of stack: np.concatenate([x[index][ri] for x in snapdata])
StackRegion(col, ri) == Concat([i \in 1..Len(col) |-> col[i].v[ri]])

\* stack concatenating sub-file by sub-file, each with its regions in turn
stack_PerFile(sd, index) ==
    LET c == Column(sd, index)
    IN  IF c.k = "raise" THEN [k |-> "raise", arr |-> c.v, offs |-> None]
        ELSE IF ~HasRegion
        THEN IF \E i \in 1..Len(c.v) : c.v[i].k # "arr"
             THEN [k |-> "raise", arr |-> <<"ValueError">>, offs |-> None]
             ELSE [k |-> "ok", offs |-> None,
                   arr |-> Concat([i \in 1..Len(c.v) |-> c.v[i].v])]
        ELSE IF \E i \in 1..Len(c.v) : c.v[i].k = "none"
             THEN [k |-> "raise", arr |-> <<"TypeError">>, offs |-> None]
        ELSE IF \E i \in 1..Len(c.v) : c.v[i].k # "list"
             THEN [k |-> "raise", arr |-> <<"IndexError">>, offs |-> None]
        ELSE LET regions == [ri \in 1..NRegions |-> StackRegion(c.v, ri)]
                 lens == <<0>> \o [ri \in 1..NRegions |-> Len(regions[ri])]
             IN  [k |-> "ok", offs |-> Arr(CumSum(lens)),
                  arr |-> Concat([i \in 1..Len(c.v) |-> Concat(c.v[i].v)])]

\* stack(index): [k, arr, offs], offs the cumulative sum of [0] + lens
stack(sd, index) ==
    LET c == Column(sd, index)
    IN  IF c.k = "raise" THEN [k |-> "raise", arr |-> c.v, offs |-> None]
        ELSE IF ~HasRegion
        THEN IF \E i \in 1..Len(c.v) : c.v[i].k # "arr"
             THEN [k |-> "raise", arr |-> <<"ValueError">>, offs |-> None]
             ELSE [k |-> "ok", offs |-> None,
                   arr |-> Concat([i \in 1..Len(c.v) |-> c.v[i].v])]
        ELSE IF \E i \in 1..Len(c.v) : c.v[i].k = "none"
             THEN [k |-> "raise", arr |-> <<"TypeError">>, offs |-> None]
        ELSE IF \E i \in 1..Len(c.v) : c.v[i].k # "list"
             THEN [k |-> "raise", arr |-> <<"IndexError">>, offs |-> None]
        ELSE LET regions == [ri \in 1..NRegions |-> StackRegion(c.v, ri)]
                 lens == <<0>> \o [ri \in 1..NRegions |-> Len(regions[ri])]
             IN  [k |-> "ok", arr |-> Concat(regions), offs |-> Arr(CumSum(lens))]

\* self.<attr> = value
SetAttr(attrs, name, value) == (name :> value) @@ attrs

\* "self.x, region_offsets = stack(index)", run only while no exception is
\* pending and the guard of the statement holds; st is [attrs, ro, err]
StackInto(st, sd, guard, name, index) ==
    IF st.err # "none" \/ ~guard THEN st
    ELSE LET r == stack(sd, index)
         IN  IF r.k = "raise" THEN [st EXCEPT !.err = r.arr[1]]
             ELSE [attrs |-> SetAttr(st.attrs, name, Arr(r.arr)),
                   ro |-> r.offs, err |-> "none"]

\* velocities scaled once for every sub-file
ScaleVelocities_PerFile(st, guard) ==
    IF st.err # "none" \/ ~guard THEN st
    ELSE [st EXCEPT !.attrs = SetAttr(st.attrs, "velocities",
              [st.attrs["velocities"] EXCEPT !.m = @ + NFiles])]

\* self.velocities *= np.sqrt(1 + self.redshift); self.redshift exists only
\* if the Header group holds Redshift
ScaleVelocities(st, guard) ==
    IF st.err # "none" \/ ~guard THEN st
    ELSE IF "redshift" \notin DOMAIN params
    THEN [st EXCEPT !.err = "AttributeError"]
    ELSE [st EXCEPT !.attrs = SetAttr(st.attrs, "velocities",
              [st.attrs["velocities"] EXCEPT !.m = @ + 1])]

\* the load_masses statement: a table mass is taken from the first result
StackMasses(st, sd) ==
    IF st.err # "none" \/ ~cfg.load_masses THEN st
    ELSE IF sd[1].v[4].k \notin {"arr", "list"}
    THEN [st EXCEPT !.attrs = SetAttr(st.attrs, "masses", sd[1].v[4])]
    ELSE StackInto(st, sd, TRUE, "masses", 3)

\* "if snapdata[0][index] is not None: self.x, region_offsets = stack(index)"
StackOptional(st, sd, name, index) ==
    IF st.err # "none" THEN st
    ELSE IF Len(sd[1].v) < index + 1 THEN [st EXCEPT !.err = "IndexError"]
    ELSE StackInto(st, sd, sd[1].v[index + 1].k # "none", name, index)

\* self.region_offsets = region_offsets, all N + 1 boundaries
SetRegionOffsets_KeepTotal(st) ==
    IF st.err # "none" \/ st.ro.k = "none" THEN st
    ELSE LET ro == st.ro.v
         IN  [st EXCEPT !.attrs =
                SetAttr(SetAttr(st.attrs, "region_offsets", Arr(ro)),
                        "region_slices",
                        Arr([i \in 1..(Len(ro) - 1) |-> <<ro[i], ro[i + 1]>>]))]

\* self.region_offsets = region_offsets[:-1] and self.region_slices
SetRegionOffsets(st) ==
    IF st.err # "none" \/ st.ro.k = "none" THEN st
    ELSE LET ro == st.ro.v
         IN  [st EXCEPT !.attrs =
                SetAttr(SetAttr(st.attrs, "region_offsets", Arr(DropLast(ro))),
                        "region_slices",
                        Arr([i \in 1..(Len(ro) - 1) |-> <<ro[i], ro[i + 1]>>]))]

\* the statements of read_hdf5_snapshot after snapdata is complete
StackAll(attrs, sd) ==
    LET s0 == [attrs |-> attrs, ro |-> None, err |-> "none"]
        s1 == StackInto(s0, sd, cfg.load_ids, "ids", 0)
        s2 == StackInto(s1, sd, cfg.load_coords, "coordinates", 1)
        s3 == StackInto(s2, sd, cfg.load_vels, "velocities", 2)
        s4 == ScaleVelocities(s3, cfg.load_vels)
        s5 == StackMasses(s4, sd)
        s6 == StackOptional(s5, sd, "metallicities", 4)
        s7 == StackOptional(s6, sd, "formation_times", 5)
        s8 == StackOptional(s7, sd, "densities", 6)
        s9 == StackOptional(s8, sd, "internal_energies", 7)
    IN  SetRegionOffsets(s9)

----------------------------------------------------------------------------
(* BinaryLayoutReader: read_binary_snapshot *)

\* the particle types of a header: np.fromfile(..., count=6)
NTypes == 6

Types == 0..(NTypes - 1)

\* the bytes of the header block with its two 4-byte buffers
HeaderBytes == 264

\* the bytes of the label record in front of every block
LabelBytes == 16

\* the bytes of the size marker on each side of a block
BufferBytes == 4

\* the bytes of a float32 / uint32 item
ItemBytes == 4

\* self.number_of_particles_this_file_by_type after read_parameters on f
NpartByType(f) ==
    [t \in Types |-> IF t = cfg.ptype THEN Len(files[f].coords)
                     ELSE files[f].others[t]]

\* self.mass_table after read_parameters on f
MassTable(f) ==
    [t \in Types |-> IF t = cfg.ptype THEN files[f].mass_table
                     ELSE files[f].other_tables[t]]

RECURSIVE SumBelow(_, _)
\* np.sum(counts[:n])
SumBelow(counts, n) ==
    IF n = 0 THEN 0 ELSE SumBelow(counts, n - 1) + counts[n - 1]

\* a type offset that counts the target type's own particles as well
PtypeOffset_Inclusive(counts, ptype) == SumBelow(counts, ptype + 1)

\* ptype_offset = np.sum(counts[:ptype + 1]) - npart
PtypeOffset(counts, ptype) == SumBelow(counts, ptype + 1) - counts[ptype]

\* idx_with_mass = np.where(self.mass_table == 0)[0], taken before the loop
IdxWithMass == {t \in Types : MassTable(1)[t] = 0}

\* number_of_particles_this_file_by_type[idx_with_mass]: the counts of the
\* types outside idx_with_mass do not enter the mass block
MassBlockCounts(f) ==
    [t \in Types |-> IF t \in IdxWithMass THEN NpartByType(f)[t] ELSE 0]

\* one np.fromfile call: the block, the byte offset of the seek, the items read
Seek(block, offset, count) == [block |-> block, offset |-> offset, count |-> count]

\* the seeks and reads of one iteration of the loop over the sub-files, for
\* a sub-file that holds particles of the target type
FileSeeks(f) ==
    LET counts == NpartByType(f)
        npart_total == SumBelow(counts, NTypes)
        npart == counts[cfg.ptype]
        ptype_offset == PtypeOffset(counts, cfg.ptype)
        masses_from_table == cfg.ptype \notin IdxWithMass
        in_mass == MassBlockCounts(f)
        npart_total_in_mass_block == SumBelow(in_mass, NTypes)
        ptype_offset_in_mass_block == PtypeOffset(in_mass, cfg.ptype)
        gap == BufferBytes + BufferBytes + LabelBytes
        pos == HeaderBytes + LabelBytes + BufferBytes + LabelBytes
        vel == pos + 3 * npart_total * ItemBytes + gap
        ids == vel + 3 * npart_total * ItemBytes + gap
        mass == ids + npart_total * ItemBytes + gap
        u == mass + npart_total_in_mass_block * ItemBytes + gap
        rho == u + npart * ItemBytes + gap
    IN  << [f |-> f] @@ Seek("POS", pos + 3 * ptype_offset * ItemBytes, 3 * npart),
           [f |-> f] @@ Seek("VEL", vel + 3 * ptype_offset * ItemBytes, 3 * npart),
           [f |-> f] @@ Seek("ID", ids + ptype_offset * ItemBytes, npart) >>
        \o (IF masses_from_table THEN <<>>
            ELSE << [f |-> f] @@ Seek("MASS",
                        mass + ptype_offset_in_mass_block * ItemBytes, npart) >>)
        \o (IF cfg.ptype = 0
            THEN << [f |-> f] @@ Seek("U", u, npart),
                    [f |-> f] @@ Seek("RHO", rho, npart) >>
            ELSE <<>>)

\* the rows read from the sub-files that hold particles of the target type
\* (coords_all, vels_all, ids_all, ... are appended to together)
BinaryRows(contrib) == Concat([i \in 1..Len(contrib) |-> Dataset(contrib[i])])

RowPos(row) == files[row[1]].coords[row[2]]

RowMass(row) == files[row[1]].pmass[row[2]]

\* inds of the region branch: only region_positions[0] and region_radii[0]
\* are used, and the displacement is not recentred
BinarySelect(rows) ==
    IF HasRegion
    THEN Take(rows, BinaryInds([k \in 1..Len(rows) |-> RowPos(rows[k])],
                               cfg.regions[1].pos, cfg.regions[1].rad))
    ELSE rows

\* a masses statement that keeps the per-particle vector whatever its values
BinaryMasses_AlwaysVector(st, sel) ==
    IF files[1].mass_table # 0
    THEN [st EXCEPT !.attrs =
            SetAttr(st.attrs, "masses", Scalar(files[NFiles].mass_table))]
    ELSE [st EXCEPT !.attrs = SetAttr(st.attrs, "masses", Arr(sel))]

\* the masses statement of either branch; st is [attrs, err]
BinaryMasses(st, sel) ==
    IF files[1].mass_table # 0
    THEN [st EXCEPT !.attrs =
            SetAttr(st.attrs, "masses", Scalar(files[NFiles].mass_table))]
    ELSE IF sel = <<>> THEN [st EXCEPT !.err = "IndexError"]
    ELSE IF \A k \in 1..Len(sel) : RowMass(sel[k]) = RowMass(sel[1])
    THEN [st EXCEPT !.attrs = SetAttr(st.attrs, "masses", Scalar(RowMass(sel[1])))]
    ELSE [st EXCEPT !.attrs = SetAttr(st.attrs, "masses", Arr(sel))]

\* the statements after the loop over the sub-files
BinaryFinish(attrs, contrib) ==
    IF contrib = <<>> THEN [attrs |-> attrs, err |-> "ValueError"]
    ELSE
    LET sel == BinarySelect(BinaryRows(contrib))
        a1 == SetAttr(SetAttr(SetAttr(attrs, "ids", Arr(sel)),
                              "coordinates", Arr(sel)), "velocities", Arr(sel))
        s2 == BinaryMasses([attrs |-> a1, err |-> "none"], sel)
        a3 == IF cfg.ptype = 0
              THEN SetAttr(SetAttr(s2.attrs, "internal_energy", Arr(sel)),
                           "density", Arr(sel))
              ELSE s2.attrs
        a4 == IF HasRegion THEN SetAttr(a3, "region_offsets", Arr(<<0>>)) ELSE a3
        a5 == SetAttr(a4, "velocities", [a4["velocities"] EXCEPT !.m = @ + 1])
    IN  IF s2.err # "none" THEN s2 ELSE [attrs |-> a5, err |-> "none"]

\* the early return for a header that reports no particle of the type
BinaryEmptyAttrs(attrs) ==
    LET a1 == SetAttr(SetAttr(SetAttr(SetAttr(attrs, "ids", Arr(<<>>)),
                  "coordinates", Arr(<<>>)), "velocities", Arr(<<>>)),
                  "masses", Arr(<<>>))
        a2 == IF cfg.ptype = 0
              THEN SetAttr(SetAttr(a1, "us_all", Arr(<<>>)), "rhos_all", Arr(<<>>))
              ELSE a1
    IN  IF HasRegion THEN SetAttr(a2, "region_offsets", Arr(<<>>)) ELSE a2

----------------------------------------------------------------------------
(* GadgetBox: __init__ and read_parameters.  Attribute values are tuples   *)
(* of strings: <<group, name>> for a value read from a group of the file,  *)
(* <<"override", unit>> for a constructor argument, the literal for a      *)
(* default, and a tag followed by its operands for a derived quantity.     *)

Units == {"unit_length_in_cm", "unit_mass_in_g", "unit_velocity_in_cm_per_s"}

\* Python's None
NoneV == <<"None">>

\* a constructor that drops its unit arguments
InitUnits_Dropped(c) == [u \in Units |-> NoneV]

\* GadgetBox.__init__: each unit is the constructor argument, None if not given
InitUnits(c) ==
    [u \in Units |-> IF u \in DOMAIN c.units THEN c.units[u] ELSE NoneV]

\* <<name in the file, attribute of the instance>> of the plain copies
\* "if name in group.attrs: self.attribute = group.attrs[name]"
CommonAttrs ==
    { <<"NSample", "nsample">>, <<"Omega0", "Omega0">>,
      <<"OmegaBaryon", "OmegaBaryon">>, <<"OmegaLambda", "OmegaLambda">>,
      <<"HubbleParam", "h">>, <<"Hubble", "hubble">>,
      <<"UnitLength_in_cm", "unit_length_in_cm">>,
      <<"UnitMass_in_g", "unit_mass_in_g">>,
      <<"UnitVelocity_in_cm_per_s", "unit_velocity_in_cm_per_s">> }

HeaderAttrs ==
    CommonAttrs \cup { <<"BoxSize", "box_size">>, <<"Redshift", "redshift">>,
                       <<"Time", "time">> }

ParametersAttrs == CommonAttrs \cup { <<"Time", "time">> }

\* the plain copies of one group
CopyGroup(attrs, group, pairs) ==
    LET present == {pr \in pairs : pr[1] \in DOMAIN group}
    IN  [a \in {pr[2] : pr \in present} |->
            group[(CHOOSE pr \in present : pr[2] = a)[1]]] @@ attrs

\* the Header block of format 3
ReadHeaderGroup(attrs, group) ==
    LET a1 == CopyGroup(attrs, group, HeaderAttrs)
        a2 == IF "Redshift" \in DOMAIN group
              THEN SetAttr(a1, "scale_factor", <<"1/(1+z)">> \o group["Redshift"])
              ELSE a1
    IN  IF "NSample" \in DOMAIN group THEN a2
        ELSE SetAttr(a2, "nsample", <<"1">>)

\* the Parameters block of format 3: [attrs, err]; self.scale_factor =
\* self.time raises AttributeError when no Time was found in either group
ReadParametersGroup(attrs, group) ==
    LET a1 == IF "Time" \in DOMAIN group
              THEN SetAttr(attrs, "time", group["Time"]) ELSE attrs
        comoving == "ComovingIntegrationOn" \in DOMAIN group
                    /\ group["ComovingIntegrationOn"] = <<"1">>
        a2 == IF comoving /\ "time" \in DOMAIN a1
              THEN SetAttr(a1, "scale_factor", a1["time"]) ELSE a1
        a3 == CopyGroup(a2, group, ParametersAttrs)
        a4 == IF "NSample" \in DOMAIN group THEN a3
              ELSE SetAttr(a3, "nsample", <<"1">>)
    IN  IF comoving /\ "time" \notin DOMAIN a1
        THEN [attrs |-> a1, err |-> "AttributeError"]
        ELSE [attrs |-> a4, err |-> "none"]

\* the fixed-offset header fields of format 1/2
BinaryHeaderAttrs ==
    { <<"Npart", "number_of_particles_this_file">>,
      <<"Massarr", "mass_table">>, <<"Time", "scale_factor">>,
      <<"Redshift", "redshift">>, <<"Nall", "number_of_particles">>,
      <<"NumFiles", "number_of_files">>, <<"BoxSize", "box_size">>,
      <<"Omega0", "Omega0">>, <<"OmegaLambda", "OmegaLambda">>,
      <<"HubbleParam", "h">> }

\* the default of a unit and its warning (the text up to "found!", without
\* the backquotes around the name)
DefaultUnit(u) ==
    CASE u = "unit_length_in_cm" -> <<"3.085678e21">>
      [] u = "unit_mass_in_g" -> <<"1.989e43">>
      [] u = "unit_velocity_in_cm_per_s" -> <<"1.0e5">>

UnitWarning(u) ==
    CASE u = "unit_length_in_cm" -> "No value for UnitLength_in_cm found!"
      [] u = "unit_mass_in_g" -> "No value for UnitMass_in_g found!"
      [] u = "unit_velocity_in_cm_per_s" ->
            "No value for UnitVelocity_in_cm_per_s found!"

\* a default substituted without its warning
DefaultOneUnit_Silent(st, u) ==
    IF st.attrs[u] = NoneV
    THEN [st EXCEPT !.attrs = SetAttr(st.attrs, u, DefaultUnit(u))]
    ELSE st

\* "if self.unit is None: warn; self.unit = default"
DefaultOneUnit(st, u) ==
    IF st.attrs[u] = NoneV
    THEN [st EXCEPT !.attrs = SetAttr(st.attrs, u, DefaultUnit(u)),
                    !.warn = Append(st.warn, UnitWarning(u))]
    ELSE st

\* sequencing: the statement F run on the one state of S; S is a singleton
\* and binds the state by value
Then(S, F(_)) == {F(x) : x \in S}

TheOne(S) == CHOOSE x \in S : TRUE

\* self.cm_per_kpc, self.g_per_1e10Msun, self.cmps_per_kmps
SetConversions(st) ==
    [st EXCEPT !.attrs = ("cm_per_kpc" :> <<"3.085678e21">>)
                         @@ ("g_per_1e10Msun" :> <<"1.989e43">>)
                         @@ ("cmps_per_kmps" :> <<"1.0e5">>) @@ st.attrs]

\* self.unit_time_in_s and self.gravitational_constant
SetDerivedUnits(st) ==
    LET ul == st.attrs["unit_length_in_cm"]
        um == st.attrs["unit_mass_in_g"]
        uv == st.attrs["unit_velocity_in_cm_per_s"]
    IN  [st EXCEPT !.attrs = ("unit_time_in_s" :> <<"l/v">> \o ul \o uv)
                             @@ ("gravitational_constant" :>
                                    <<"G">> \o um \o ul \o uv) @@ st.attrs]

\* "if not hasattr(self, name): self.name = 0" for the three densities
DefaultDensities(st) ==
    [st EXCEPT !.attrs =
        st.attrs @@ [n \in {"Omega0", "OmegaBaryon", "OmegaLambda"} |-> <<"0">>]]

\* the default of h substituted without its warning
DefaultHubbleParam_Silent(st) ==
    IF "h" \in DOMAIN st.attrs THEN st
    ELSE [st EXCEPT !.attrs = SetAttr(st.attrs, "h", <<"0.7">>)]

\* "if not hasattr(self, 'h'): warn; self.h = 0.7"
DefaultHubbleParam(st) ==
    IF "h" \in DOMAIN st.attrs THEN st
    ELSE [st EXCEPT !.attrs = SetAttr(st.attrs, "h", <<"0.7">>),
                    !.warn = Append(st.warn, "No value for HubbleParam found!")]

\* "if not hasattr(self, 'hubble'): self.hubble = 0.1 * length_norm /
\* velocity_norm; warn"
DefaultHubble(st) ==
    IF "hubble" \in DOMAIN st.attrs THEN st
    ELSE [st EXCEPT !.attrs = SetAttr(st.attrs, "hubble",
                            <<"0.1*l/v">> \o st.attrs["unit_length_in_cm"]
                                \o st.attrs["unit_velocity_in_cm_per_s"]),
                    !.warn = Append(st.warn, "No value for Hubble found!")]

\* self.hubble_constant = self.h * self.hubble
SetHubbleConstant(st) ==
    [st EXCEPT !.attrs = SetAttr(st.attrs, "hubble_constant",
        <<"h*hubble">> \o st.attrs["h"] \o st.attrs["hubble"])]

\* "if hasattr(self, 'redshift'): self.hubble_parameter = ..."
SetHubbleParameter(st) ==
    IF "redshift" \in DOMAIN st.attrs
    THEN [st EXCEPT !.attrs = SetAttr(st.attrs, "hubble_parameter",
            <<"H(z)">> \o st.attrs["redshift"] \o st.attrs["hubble_constant"]
                \o st.attrs["Omega0"] \o st.attrs["OmegaLambda"])]
    ELSE st

\* "if hasattr(self, 'hubble_parameter'): self.critical_density = ..."
SetCriticalDensity(st) ==
    IF "hubble_parameter" \in DOMAIN st.attrs
    THEN [st EXCEPT !.attrs = SetAttr(st.attrs, "critical_density",
            <<"rho_c">> \o st.attrs["hubble_parameter"] \o st.attrs["h"]
                \o st.attrs["gravitational_constant"])]
    ELSE st

\* the statements of read_parameters after the format branch, in order;
\* st is [attrs, warn, err], left as it is when the branch raised
ResolveDefaults(st) ==
    IF st.err # "none" THEN st
    ELSE TheOne(
        Then(Then(Then(Then(Then(Then(Then(Then(Then(Then(Then({st},
            SetConversions),
            LAMBDA x : DefaultOneUnit(x, "unit_length_in_cm")),
            LAMBDA x : DefaultOneUnit(x, "unit_mass_in_g")),
            LAMBDA x : DefaultOneUnit(x, "unit_velocity_in_cm_per_s")),
            SetDerivedUnits),
            DefaultDensities),
            DefaultHubbleParam),
            DefaultHubble),
            SetHubbleConstant),
            SetHubbleParameter),
            SetCriticalDensity))

\* the format branch of read_parameters: [attrs, warn, err]
ReadFormat(attrs, meta, fmt) ==
    IF fmt = 3
    THEN LET h == IF meta.has_header
                  THEN ReadHeaderGroup(attrs, meta.Header) ELSE attrs
         IN  IF meta.has_parameters
             THEN TheOne({[attrs |-> r.attrs, warn |-> <<>>, err |-> r.err] :
                            r \in {ReadParametersGroup(h, meta.Parameters)}})
             ELSE [attrs |-> h, warn |-> <<>>, err |-> "none"]
    ELSE [attrs |-> CopyGroup(attrs, meta.Header, BinaryHeaderAttrs),
          warn |-> <<>>, err |-> "none"]

\* read_parameters(datafile, file_format) on a file whose metadata is meta:
\* [attrs, warn, err]
read_parameters(attrs, meta, fmt) ==
    TheOne(Then({ReadFormat(attrs, meta, fmt)}, ResolveDefaults))

----------------------------------------------------------------------------
(* GadgetSnapshot.__init__ up to the call of read_snapshot *)

\* nsnap == 0 treated as an error
NoSnapshot_Raising ==
    /\ pc = "init"
    /\ Len(matched) = 0
    /\ has_snap' = "False"
    /\ raised' = "FileNotFoundError"
    /\ pc' = "raised"
    /\ UNCHANGED <<matched, snapshot_files, warned, opened, cfg, files,
                   snapdata, arrival, self, params, seeks>>

\* nsnap == 0: has_snap = False and a warning
NoSnapshot ==
    /\ pc = "init"
    /\ Len(matched) = 0
    /\ has_snap' = "False"
    /\ warned' = Append(warned, "No snapshot files found!")
    /\ pc' = "done"
    /\ UNCHANGED <<matched, snapshot_files, raised, opened, cfg, files,
                   snapdata, arrival, self, params, seeks>>

\* nsnap > 0: has_snap = True, then reorder_subfiles when nsnap > 1
Locate ==
    /\ pc = "init"
    /\ Len(matched) > 0
    /\ has_snap' = "True"
    /\ IF Len(matched) > 1
       THEN \E r \in reorder_subfiles(matched) :
              IF r.k = "raise"
              THEN /\ raised' = r.msg
                   /\ pc' = "raised"
                   /\ snapshot_files' = matched
              ELSE /\ snapshot_files' = r.v
                   /\ pc' = "read_snapshot"
                   /\ UNCHANGED raised
       ELSE /\ snapshot_files' = matched
            /\ pc' = "read_snapshot"
            /\ UNCHANGED raised
    /\ UNCHANGED <<matched, warned, opened, cfg, files, snapdata, arrival, self, params, seeks>>

\* read_snapshot, first statement: read_parameters on filenames[0]
ReadParameters ==
    /\ pc = "read_snapshot"
    /\ opened' = opened \cup {1}
    /\ \E r \in {read_parameters(params, files[1].meta, cfg.fmt)} :
          /\ params' = r.attrs
          /\ warned' = warned \o r.warn
          /\ raised' = r.err
          /\ pc' = IF r.err = "none" THEN "params_done" ELSE "raised"
    /\ UNCHANGED <<matched, snapshot_files, has_snap, cfg, files, snapdata,
                   arrival, self, seeks>>

----------------------------------------------------------------------------
(* GadgetSnapshot.read_snapshot after read_parameters *)

AnyLoad == cfg.load_ids \/ cfg.load_coords \/ cfg.load_vels \/ cfg.load_masses

\* no field requested: return after the parameters
ReturnEarly ==
    /\ pc = "params_done"
    /\ ~AnyLoad
    /\ pc' = "done"
    /\ UNCHANGED <<matched, snapshot_files, has_snap, warned, raised, opened,
                   cfg, files, snapdata, arrival, self, params, seeks>>

\* read_hdf5_snapshot, npool None or 1: enter the loop over the sub-files
StartSequential ==
    /\ pc = "params_done"
    /\ AnyLoad
    /\ cfg.fmt = 3
    /\ cfg.npool \in {0, 1}
    /\ pc' = "seq"
    /\ UNCHANGED <<matched, snapshot_files, has_snap, warned, raised, opened,
                   cfg, files, snapdata, arrival, self, params, seeks>>

\* one iteration of "for fi in range(len(fnames))"
SequentialRead ==
    /\ pc = "seq"
    /\ LET fi == Len(snapdata) + 1
           r == read_files(fi)
       IN  /\ opened' = opened \cup {fi}
           /\ IF r.k = "raise"
              THEN /\ raised' = r.v[1]
                   /\ pc' = "raised"
                   /\ UNCHANGED snapdata
              ELSE /\ snapdata' = Append(snapdata, r)
                   /\ pc' = IF fi = NFiles THEN "stack" ELSE "seq"
                   /\ UNCHANGED raised
    /\ UNCHANGED <<matched, snapshot_files, has_snap, warned, cfg, files,
                   arrival, self, params, seeks>>

\* read_hdf5_snapshot, npool > 1: the tasks are handed to the pool
StartPool ==
    /\ pc = "params_done"
    /\ AnyLoad
    /\ cfg.fmt = 3
    /\ cfg.npool > 1
    /\ pc' = "pool"
    /\ UNCHANGED <<matched, snapshot_files, has_snap, warned, raised, opened,
                   cfg, files, snapdata, arrival, self, params, seeks>>

\* a worker finishes task i; the tasks may finish in any order
PoolTaskDone(i) ==
    /\ pc = "pool"
    /\ i \in 1..NFiles
    /\ i \notin Range(arrival)
    /\ arrival' = Append(arrival, i)
    /\ opened' = opened \cup {i}
    /\ UNCHANGED <<pc, matched, snapshot_files, has_snap, warned, raised, cfg,
                   files, snapdata, self, params, seeks>>

\* map returns once every task is done, or re-raises a task's exception
PoolJoin ==
    /\ pc = "pool"
    /\ Len(arrival) = NFiles
    /\ LET res == PoolMap(arrival)
       IN  IF FirstRaise(res, arrival) # "none"
           THEN /\ raised' = FirstRaise(res, arrival)
                /\ pc' = "raised"
                /\ UNCHANGED snapdata
           ELSE /\ snapdata' = res
                /\ pc' = "stack"
                /\ UNCHANGED raised
    /\ UNCHANGED <<matched, snapshot_files, has_snap, warned, opened, cfg,
                   files, arrival, self, params, seeks>>

\* the stack(...) statements and the region bookkeeping
Stack ==
    /\ pc = "stack"
    /\ LET st == StackAll(self, snapdata)
       IN  /\ self' = st.attrs
           /\ raised' = st.err
           /\ pc' = IF st.err = "none" THEN "done" ELSE "raised"
    /\ UNCHANGED <<matched, snapshot_files, has_snap, warned, opened, cfg,
                   files, snapdata, arrival, params, seeks>>

\* read_binary_snapshot with a header total of zero for the type
BinaryEmpty ==
    /\ pc = "params_done"
    /\ AnyLoad
    /\ cfg.fmt # 3
    /\ files[1].hdr_total = 0
    /\ self' = BinaryEmptyAttrs(self)
    /\ pc' = "done"
    /\ UNCHANGED <<matched, snapshot_files, has_snap, warned, raised, opened,
                   cfg, files, snapdata, arrival, params, seeks>>

\* read_binary_snapshot otherwise: enter the loop over the sub-files
StartBinary ==
    /\ pc = "params_done"
    /\ AnyLoad
    /\ cfg.fmt # 3
    /\ files[1].hdr_total # 0
    /\ pc' = "binary"
    /\ UNCHANGED <<matched, snapshot_files, has_snap, warned, raised, opened,
                   cfg, files, snapdata, arrival, self, params, seeks>>

\* one iteration of "for f in fnames": read_parameters on the sub-file, which
\* is then skipped if it holds no particle of the type
BinaryFile ==
    /\ pc = "binary"
    /\ Len(arrival) < NFiles
    /\ LET f == Len(arrival) + 1
       IN  /\ arrival' = Append(arrival, f)
           /\ opened' = opened \cup {f}
           /\ snapdata' = IF Len(files[f].coords) = 0 THEN snapdata
                          ELSE Append(snapdata, f)
           /\ seeks' = IF Len(files[f].coords) = 0 THEN seeks
                       ELSE seeks \o FileSeeks(f)
           /\ \E r \in {read_parameters(params, files[f].meta, cfg.fmt)} :
                 /\ params' = r.attrs
                 /\ warned' = warned \o r.warn
    /\ UNCHANGED <<pc, matched, snapshot_files, has_snap, raised, cfg, files,
                   self>>

\* the statements after the loop
BinaryDone ==
    /\ pc = "binary"
    /\ Len(arrival) = NFiles
    /\ LET st == BinaryFinish(self, snapdata)
       IN  /\ self' = st.attrs
           /\ raised' = st.err
           /\ pc' = IF st.err = "none" THEN "done" ELSE "raised"
    /\ UNCHANGED <<matched, snapshot_files, has_snap, warned, opened, cfg,
                   files, snapdata, arrival, params, seeks>>

----------------------------------------------------------------------------
(* Inputs *)

\* the columns paths are built from, and the paths: one or two columns
Columns == {<<"s">>, <<"1">>, <<"2">>, <<"1", "0">>}

Names == Columns \cup {a \o <<".">> \o b : a \in Columns, b \in Columns}

\* what glob.glob can return: distinct paths, in any order
MatchLists ==
    UNION {{m \in [1..n -> Names] : \A i, j \in 1..n : i # j => m[i] # m[j]} :
            n \in 0..MaxMatch}

\* particle positions: at distance 3 from the origin, next to the opposite
\* face of the box, and at distance exactly 5 from the origin
Points == {<<3, 0, 0>>, <<BoxSize - 1, 0, 0>>, <<3, 4, 0>>}

PointSeqs == UNION {[1..n -> Points] : n \in 0..MaxPart}

RegionA == [pos |-> <<0, 0, 0>>, rad |-> 2]

RegionB == [pos |-> <<0, 0, 0>>, rad |-> 5]

RegionC == [pos |-> <<3, 4, 0>>, rad |-> 1]

\* region_positions / region_radii: none, one region, two overlapping
\* regions, two disjoint regions
Queries == {<<>>, <<RegionA>>, <<RegionB, RegionA>>, <<RegionA, RegionC>>}

Selectors == {[use_kdtree |-> FALSE, buffer |-> 0],
              [use_kdtree |-> TRUE, buffer |-> 0],
              [use_kdtree |-> TRUE, buffer |-> 1]}

BaseCfg == [fmt |-> 3, ptype |-> 1, load_ids |-> TRUE, load_coords |-> TRUE,
            load_vels |-> TRUE, load_masses |-> TRUE, regions |-> <<>>,
            use_kdtree |-> FALSE, buffer |-> 0, read_mode |-> 1, npool |-> 0,
            units |-> <<>>]

\* the names a header of either format can hold
HeaderNames ==
    {pr[1] : pr \in HeaderAttrs \cup BinaryHeaderAttrs}

\* metadata with a full Header and no Parameters group
FullMeta == [has_header |-> TRUE, has_parameters |-> FALSE,
             Header |-> [n \in HeaderNames |-> <<"Header", n>>],
             Parameters |-> <<>>]

\* a sub-file without particles of the target type
\* a sub-file without particles of the other types; a mass table whose
\* other entries are zero
NoOthers == [t \in Types |-> 0]

EmptyFile == [coords |-> <<>>, pmass |-> <<>>, has |-> {}, mass_table |-> 5,
              hdr_total |-> 0, meta |-> FullMeta,
              others |-> NoOthers, other_tables |-> NoOthers]

\* the sub-files holding the particles of all, cut after cuts[1], cuts[2], ...
CutFiles(all, cuts, n, has, mass_table) ==
    [i \in 1..n |->
        LET lo == IF i = 1 THEN 0 ELSE cuts[i - 1]
            hi == IF i = n THEN Len(all) ELSE cuts[i]
        IN  [coords |-> SubSeq(all, lo + 1, hi),
             pmass |-> [j \in 1..(hi - lo) |-> 1],
             has |-> has, mass_table |-> mass_table, hdr_total |-> Len(all),
             meta |-> FullMeta, others |-> NoOthers, other_tables |-> NoOthers]]

FileLists(has, mass_table) ==
    UNION {{CutFiles(all, cuts, n, has, mass_table) :
              cuts \in {c \in [1..(n - 1) -> 0..Len(all)] :
                          \A i \in 1..(n - 2) : c[i] <= c[i + 1]}} :
            n \in 1..MaxFiles, all \in PointSeqs}

\* the sub-file names of a snapshot of n sub-files
FileNames(n) == [i \in 1..n |-> <<"s", ".", (<<"0", "1", "2", "3", "4">>)[i]>>]

----------------------------------------------------------------------------
(* Specifications *)

\* the constructor up to the first statement of read_snapshot
InitLocate ==
    /\ pc = "init"
    /\ matched \in MatchLists
    /\ snapshot_files = <<>>
    /\ has_snap = "unset"
    /\ warned = <<>>
    /\ raised = "none"
    /\ opened = {}
    /\ cfg = BaseCfg
    /\ files = [i \in 1..Len(matched) |-> EmptyFile]
    /\ snapdata = <<>>
    /\ arrival = <<>>
    /\ self = <<>>
    /\ seeks = <<>>
    /\ params = InitUnits(cfg)

NextLocate == NoSnapshot \/ Locate \/ ReadParameters

SpecLocate == InitLocate /\ [][NextLocate]_vars

\* read_snapshot from the state after read_parameters on the first sub-file
InitRead(cfgs, has, tables) ==
    /\ pc = "params_done"
    /\ files \in UNION {FileLists(has, t) : t \in tables}
    /\ cfg \in cfgs
    /\ matched = FileNames(Len(files))
    /\ snapshot_files = matched
    /\ has_snap = "True"
    /\ \E r \in {read_parameters(InitUnits(cfg), files[1].meta, cfg.fmt)} :
          params = r.attrs /\ warned = r.warn
    /\ raised = "none"
    /\ opened = {1}
    /\ snapdata = <<>>
    /\ arrival = <<>>
    /\ self = <<>>
    /\ seeks = <<>>

NextRead ==
    \/ ReturnEarly
    \/ StartSequential
    \/ SequentialRead
    \/ StartPool
    \/ \E i \in 1..MaxFiles : PoolTaskDone(i)
    \/ PoolJoin
    \/ Stack
    \/ BinaryEmpty
    \/ StartBinary
    \/ BinaryFile
    \/ BinaryDone

\* hierarchical reads: every query and pool setting, brute-force selection
HdfCfgs ==
    {[BaseCfg EXCEPT !.regions = q, !.npool = np] : q \in Queries, np \in {0, 2}}

\* binary reads: every query
BinCfgs == {[BaseCfg EXCEPT !.fmt = 2, !.regions = q] : q \in Queries}

\* a read that asks for no field
NoLoadCfgs == {[BaseCfg EXCEPT !.load_ids = FALSE, !.load_coords = FALSE,
                               !.load_vels = FALSE, !.load_masses = FALSE]}

\* hierarchical reads that ask for the masses only
MassOnlyCfgs == {[BaseCfg EXCEPT !.load_ids = FALSE, !.load_coords = FALSE,
                                 !.load_vels = FALSE, !.regions = q] :
                   q \in Queries}

\* sub-files with a Masses dataset, sub-files whose masses come from the
\* mass table, and binary sub-files with and without a table mass
Init ==
    \/ InitRead(HdfCfgs \cup NoLoadCfgs, {"Masses"}, {5})
    \/ InitRead(MassOnlyCfgs, {}, {5})
    \/ InitRead(BinCfgs, {}, {0, 5})

Spec == Init /\ [][NextRead]_vars

\* read_snapshot on the sub-files of fls, from the state after
\* read_parameters on the first of them
InitReadFrom(cfgs, fls) ==
    /\ pc = "params_done"
    /\ files \in fls
    /\ cfg \in cfgs
    /\ matched = FileNames(Len(files))
    /\ snapshot_files = matched
    /\ has_snap = "True"
    /\ \E r \in {read_parameters(InitUnits(cfg), files[1].meta, cfg.fmt)} :
          params = r.attrs /\ warned = r.warn
    /\ raised = "none"
    /\ opened = {1}
    /\ snapdata = <<>>
    /\ arrival = <<>>
    /\ self = <<>>
    /\ seeks = <<>>

\* every combination of the load flags, in both formats, with and without
\* a region query; and the pooled read of all fields
FlagCfgs ==
    {[BaseCfg EXCEPT !.fmt = fmt, !.regions = q, !.load_ids = a,
                     !.load_coords = b, !.load_vels = c, !.load_masses = d] :
        fmt \in {2, 3}, q \in {<<>>, <<RegionB, RegionA>>},
        a \in BOOLEAN, b \in BOOLEAN, c \in BOOLEAN, d \in BOOLEAN}
    \cup {[BaseCfg EXCEPT !.npool = 2, !.regions = q] :
            q \in {<<>>, <<RegionB, RegionA>>}}

\* binary sub-files whose headers report a total of h particles of the type,
\* whatever the sub-files hold
SkewedFileLists ==
    {[i \in DOMAIN fl |-> [fl[i] EXCEPT !.hdr_total = h]] :
        fl \in FileLists({}, 0) \cup FileLists({}, 5), h \in 0..(MaxPart + 1)}

SkewedCfgs == {[BaseCfg EXCEPT !.fmt = 2, !.regions = q] :
                 q \in {<<>>, <<RegionB>>}}

InitRequest ==
    \/ InitReadFrom(FlagCfgs, FileLists({"Masses"}, 5))
    \/ InitReadFrom(SkewedCfgs, SkewedFileLists)

SpecRequest == InitRequest /\ [][NextRead]_vars

\* binary reads of sub-files that hold particles of several types, with
\* per-particle masses that differ, of the gas type, and of sub-files whose
\* headers differ

\* most particles of the other types in a sub-file
MaxOther == 2

\* the counts of the types other than ptype
OtherCounts(ptype) ==
    {c \in [Types -> 0..MaxOther] :
        c[ptype] = 0 /\ SumBelow(c, NTypes) <= MaxOther}

\* the mass-table entries of the types other than ptype that hold particles:
\* zero (a per-particle mass) or a table mass
OtherTables(c) ==
    {m \in [Types -> {0, 5}] : \A t \in Types : c[t] = 0 => m[t] = 0}

\* the particles of the target type: <<position, mass>>, taken from ps
ParticleSeqs(ps) == UNION {[1..n -> ps] : n \in 0..MaxPart}

\* the header of a sub-file that belongs to a later output time
LaterMeta ==
    [FullMeta EXCEPT !.Header =
        [n \in HeaderNames |->
            IF n \in {"Time", "Redshift"} THEN <<"Header", n, "later">>
            ELSE <<"Header", n>>]]

\* the binary sub-files holding the particles of parts, cut after cuts[1],
\* ...; metas[i] is the header of sub-file i
CutBinary(parts, cuts, n, mass_table, others, tables, metas) ==
    [i \in 1..n |->
        LET lo == IF i = 1 THEN 0 ELSE cuts[i - 1]
            hi == IF i = n THEN Len(parts) ELSE cuts[i]
        IN  [coords |-> [j \in 1..(hi - lo) |-> parts[lo + j][1]],
             pmass |-> [j \in 1..(hi - lo) |-> parts[lo + j][2]],
             has |-> {}, mass_table |-> mass_table, hdr_total |-> Len(parts),
             meta |-> metas[i], others |-> others, other_tables |-> tables]]

BinaryFileLists(ns, ps, mass_tables, others, metas) ==
    UNION {{CutBinary(parts, cuts, n, mt, others, tables, metas) :
              cuts \in {c \in [1..(n - 1) -> 0..Len(parts)] :
                          \A i \in 1..(n - 2) : c[i] <= c[i + 1]},
              mt \in mass_tables, tables \in OtherTables(others)} :
            n \in ns, parts \in ParticleSeqs(ps)}

SameMetas == [i \in 1..MaxFiles |-> FullMeta]

LaterMetas == [i \in 1..MaxFiles |-> IF i = 1 THEN FullMeta ELSE LaterMeta]

BinaryCfg(ptype, q) == [BaseCfg EXCEPT !.fmt = 2, !.ptype = ptype, !.regions = q]

\* one sub-file with every target type among particles of the other types;
\* the gas type, and a collisionless type under a region query, with
\* per-particle masses that differ; sub-files whose headers differ
InitBinary ==
    \/ \E ptype \in Types : \E c \in OtherCounts(ptype) :
          InitReadFrom({BinaryCfg(ptype, <<>>)},
              BinaryFileLists({1}, {<<3, 0, 0>>} \X {1}, {0, 5}, c, SameMetas))
    \/ InitReadFrom({BinaryCfg(0, <<>>), BinaryCfg(1, <<RegionB>>)},
          BinaryFileLists(1..MaxFiles,
                          {<<<<3, 0, 0>>, 1>>, <<<<3, 0, 0>>, 2>>,
                           <<<<3, 4, 0>>, 1>>},
                          {0, 5}, NoOthers, SameMetas))
    \/ InitReadFrom({BinaryCfg(1, <<>>)},
          BinaryFileLists({MaxFiles}, {<<3, 0, 0>>} \X {1}, {5}, NoOthers,
                          LaterMetas))

NextBinary == BinaryEmpty \/ StartBinary \/ BinaryFile \/ BinaryDone

SpecBinary == InitBinary /\ [][NextBinary]_vars

\* sequential hierarchical reads in either read mode, of particle groups
\* that hold some of the optional datasets, and of a file whose Header has
\* no Redshift

\* the datasets of a particle group besides ids, coordinates and velocities
DatasetSets ==
    {{"Masses"}, {"Masses", "Density"}, {"Density", "InternalEnergy"},
     {"Masses", "Metallicity", "StellarFormationTime"},
     {"Masses", "StellarFormationTime", "Density", "InternalEnergy"}}

ModeCfgs ==
    {[BaseCfg EXCEPT !.regions = q, !.read_mode = mode] :
        q \in {<<>>, <<RegionB, RegionA>>, <<RegionA, RegionC>>},
        mode \in {1, 2}}

\* a Header group without Redshift
NoRedshiftMeta ==
    [FullMeta EXCEPT !.Header =
        [n \in HeaderNames \ {"Redshift"} |-> <<"Header", n>>]]

NoRedshiftFileLists ==
    {[i \in DOMAIN fl |-> [fl[i] EXCEPT !.meta = NoRedshiftMeta]] :
        fl \in FileLists({"Masses"}, 5)}

InitModes ==
    \/ \E has \in DatasetSets : InitReadFrom(ModeCfgs, FileLists(has, 5))
    \/ InitReadFrom({BaseCfg}, NoRedshiftFileLists)

NextModes == StartSequential \/ SequentialRead \/ Stack

SpecModes == InitModes /\ [][NextModes]_vars

\* the names a group of a hierarchical file holds: some of the units, some of
\* the cosmology, and the time block
UnionAll(S) == UNION S

HeaderNameSets ==
    {{"BoxSize"} \cup u \cup c \cup t :
        u \in SUBSET {"UnitLength_in_cm", "UnitMass_in_g"},
        c \in {UnionAll(x) : x \in SUBSET {{"HubbleParam"}, {"Hubble"},
                     {"Omega0", "OmegaBaryon", "OmegaLambda"}}},
        t \in {{}, {"Time"}, {"Time", "Redshift", "NSample"}}}

ParametersNameSets ==
    {u \cup c \cup t :
        u \in SUBSET {"UnitLength_in_cm"},
        c \in {UnionAll(x) : x \in SUBSET {{"HubbleParam"},
                     {"Omega0", "OmegaBaryon", "OmegaLambda"}}},
        t \in {{}, {"Time"}, {"Time", "ComovingIntegrationOn", "NSample"},
               {"ComovingIntegrationOn"}}}

\* a group with the names ns; ComovingIntegrationOn is on or off
Group(g, ns, comoving) ==
    [n \in ns |-> IF n = "ComovingIntegrationOn" THEN comoving ELSE <<g, n>>]

\* the metadata of hierarchical files: each group absent or present
Metas ==
    LET headers == {[has |-> FALSE, g |-> <<>>]} \cup
                   {[has |-> TRUE, g |-> Group("Header", ns, <<"0">>)] :
                      ns \in HeaderNameSets}
        parameters == {[has |-> FALSE, g |-> <<>>]} \cup
                      {[has |-> TRUE, g |-> Group("Parameters", ns, c)] :
                         ns \in ParametersNameSets, c \in {<<"0">>, <<"1">>}}
    IN  {[has_header |-> h.has, Header |-> h.g,
          has_parameters |-> q.has, Parameters |-> q.g] :
            h \in headers, q \in parameters}

\* the unit arguments of the constructor: any of the three, or none
UnitArgs == {[u \in us |-> <<"override", u>>] : us \in SUBSET Units}

\* read_snapshot on one sub-file with no field requested: read_parameters
\* and the early return
InitParams ==
    /\ pc = "read_snapshot"
    /\ \E fmt \in {2, 3} : \E ua \in UnitArgs :
          /\ cfg = [BaseCfg EXCEPT !.fmt = fmt, !.units = ua,
                                   !.load_ids = FALSE, !.load_coords = FALSE,
                                   !.load_vels = FALSE, !.load_masses = FALSE]
          /\ \E meta \in (IF fmt = 3 THEN Metas ELSE {FullMeta}) :
                files = <<[EmptyFile EXCEPT !.meta = meta]>>
    /\ matched = FileNames(1)
    /\ snapshot_files = matched
    /\ has_snap = "True"
    /\ warned = <<>>
    /\ raised = "none"
    /\ opened = {}
    /\ snapdata = <<>>
    /\ arrival = <<>>
    /\ self = <<>>
    /\ seeks = <<>>
    /\ params = InitUnits(cfg)

NextParams == ReadParameters \/ ReturnEarly

SpecParams == InitParams /\ [][NextParams]_vars

\* sequential hierarchical region reads under every selector
SelectCfgs ==
    {[BaseCfg EXCEPT !.regions = q, !.use_kdtree = sel.use_kdtree,
                     !.buffer = sel.buffer] :
        q \in Queries \ {<<>>}, sel \in Selectors}

InitSelect == InitRead(SelectCfgs, {"Masses"}, {5})

NextSelect == StartSequential \/ SequentialRead \/ Stack

SpecSelect == InitSelect /\ [][NextSelect]_vars

----------------------------------------------------------------------------
(* Claims about the SubfileLocator (SpecLocate) *)

\* the columns of matched path r
ColsOf(r) == StrSplit(matched[r])

SameColumnCount == \A i, j \in 1..Len(matched) : Len(ColsOf(i)) = Len(ColsOf(j))

\* column c is all digits in every matched path
DigitColumn(c) == \A r \in 1..Len(matched) : IsDigit(ColsOf(r)[c])

HasDigitColumn ==
    SameColumnCount /\ \E c \in 1..Len(ColsOf(1)) : DigitColumn(c)

\* the first all-digit column
FirstDigitColumn ==
    CHOOSE c \in 1..Len(ColsOf(1)) :
        DigitColumn(c) /\ \A d \in 1..(c - 1) : ~DigitColumn(d)

\* the integer value of a path's first all-digit column
SubNum(path) == ToInt(StrSplit(path)[FirstDigitColumn])

\* C1: when two or more paths match and some column is all digits in every
\* path, reorder_subfiles returns exactly the matched paths, ascending by the
\* integer value of the first such column
C1_SortedByFirstDigitColumn ==
    (pc # "init" /\ Len(matched) >= 2 /\ HasDigitColumn) =>
        /\ pc \in {"read_snapshot", "params_done"}
        /\ Len(snapshot_files) = Len(matched)
        /\ Range(snapshot_files) = Range(matched)
        /\ \A i \in 1..(Len(snapshot_files) - 1) :
              SubNum(snapshot_files[i]) <= SubNum(snapshot_files[i + 1])

\* C1 witness: s.10, s.1, s.2 were matched and come out as s.1, s.2, s.10
C1_Witness ==
    /\ pc = "read_snapshot"
    /\ matched = << <<"s", ".", "1", "0">>, <<"s", ".", "1">>, <<"s", ".", "2">> >>
    /\ snapshot_files =
         << <<"s", ".", "1">>, <<"s", ".", "2">>, <<"s", ".", "1", "0">> >>

C16_NoFilesIsNotAnError ==
    (pc # "init" /\ Len(matched) = 0) =>
        /\ pc = "done"
        /\ raised = "none"
        /\ has_snap = "False"
        /\ warned = <<"No snapshot files found!">>
        /\ opened = {}
        /\ params = InitUnits(cfg)
        /\ self = <<>>
    /\ seeks = <<>>

C16_Witness ==
    /\ pc = "done"
    /\ matched = <<>>
    /\ has_snap = "False"
    /\ warned = <<"No snapshot files found!">>

----------------------------------------------------------------------------
(* Claims about read_snapshot (Spec)                                       *)

\* a finished hierarchical read and a finished binary read
HdfDone == pc = "done" /\ cfg.fmt = 3 /\ AnyLoad

BinDone == pc = "done" /\ cfg.fmt # 3 /\ AnyLoad

\* the per-particle attributes the hierarchical read holds as arrays
ParticleAttrs == {"ids", "coordinates", "velocities", "masses"}

\* whether read_snapshot was asked for the attribute
Requested(a) ==
    CASE a = "ids" -> cfg.load_ids
      [] a = "coordinates" -> cfg.load_coords
      [] a = "velocities" -> cfg.load_vels
      [] a = "masses" -> cfg.load_masses

StackedArrays == {a \in ParticleAttrs \cap DOMAIN self : self[a].k = "arr"}

\* arr[slice(lo, hi)]
Slice(arr, sl) == SubSeq(arr, sl[1] + 1, sl[2])

\* how often a row occurs in an array
Count(row, arr) == Cardinality({k \in 1..Len(arr) : arr[k] = row})

\* the rows of the snapshot pre-merged into one file, sub-files ascending
MergedRows == Concat([f \in 1..NFiles |-> Dataset(f)])

\* the particles of the snapshot
Particles == {<<f, j>> : f \in 1..NFiles, j \in 1..MaxPart} \cap Range(MergedRows)

\* squared distance of a particle to the centre of region i, plain and
\* with every component of the displacement wrapped into [-L/2, L/2)
PlainDist2(row, i) == Norm2(Sub(RowPos(row), cfg.regions[i].pos))

WrapInto(d, L) == CHOOSE w \in (0 - L)..L :
                     /\ 2 * w >= 0 - L
                     /\ 2 * w < L
                     /\ (d - w) % L = 0

PeriodicDist2(row, i) ==
    LET d == Sub(RowPos(row), cfg.regions[i].pos)
    IN  Norm2([k \in 1..Len(d) |-> WrapInto(d[k], BoxSize)])

\* C3: a hierarchical read without a region query returns, for every
\* per-particle array, the per-sub-file arrays concatenated in ascending
\* sub-file order, which is what one pass over the pre-merged file returns
\* (the velocities scaled by sqrt(1 + redshift) exactly once)
C3_ConcatenationInSubfileOrder ==
    (HdfDone /\ ~HasRegion) =>
        \A a \in ParticleAttrs :
            IF ~Requested(a) THEN a \notin DOMAIN self
            ELSE /\ a \in DOMAIN self
                 /\ IF a = "masses" /\ "Masses" \notin files[1].has
                    THEN self[a] = Scalar(files[1].mass_table)
                    ELSE /\ self[a].k = "arr"
                         /\ self[a].v = MergedRows
                         /\ self[a].m = IF a = "velocities" THEN 1 ELSE 0

C3_Witness ==
    /\ HdfDone /\ cfg.load_ids /\ ~HasRegion
    /\ NFiles = 2
    /\ Len(files[1].coords) = 1 /\ Len(files[2].coords) = 2
    /\ self["coordinates"].v = << <<1, 1>>, <<2, 1>>, <<2, 2>> >>

\* C4: a pooled hierarchical read leaves the attributes the sequential read
\* of the same sub-files leaves, whatever the order the tasks finished in
C4_PoolEqualsSequential ==
    (HdfDone /\ cfg.npool > 1) =>
        LET seq == StackAll(<<>>, [i \in 1..NFiles |-> read_files(i)])
        IN  seq.err = "none" /\ self = seq.attrs

C4_Witness ==
    /\ HdfDone /\ cfg.load_ids /\ cfg.npool > 1
    /\ arrival = <<2, 1>>
    /\ Len(files[1].coords) > 0 /\ Len(files[2].coords) > 0
    /\ self["ids"].v = MergedRows

\* the particle lies inside region i: strictly closer to its centre than the
\* radius, in the periodic metric
InsidePeriodic(row, i) ==
    cfg.regions[i].rad > 0
    /\ PeriodicDist2(row, i) < cfg.regions[i].rad * cfg.regions[i].rad

\* no point of the box lies inside two of the query regions
PairwiseDisjoint ==
    \A i \in 1..NRegions : \A k \in (i + 1)..NRegions :
        LET d == Sub(cfg.regions[i].pos, cfg.regions[k].pos)
            sum == cfg.regions[i].rad + cfg.regions[k].rad
        IN  Norm2([q \in 1..Len(d) |-> WrapInto(d[q], BoxSize)]) >= sum * sum

\* region i's matches of all sub-files: sub-files ascending, each in the
\* order its own selection lists them
RegionRows(i) == Concat([f \in 1..NFiles |-> Take(Dataset(f), RegionInds(f)[i])])

\* C5: after a region-filtered hierarchical read the slices of region_slices
\* are contiguous, start at 0, end at the length of every stacked array and
\* never decrease, and slice i of every stacked array holds region i's
\* matches ordered by ascending sub-file and then by the per-file selection
\* order
C5_RegionSlicesContiguous ==
    (HdfDone /\ HasRegion) =>
        \A a \in StackedArrays :
            /\ "region_slices" \in DOMAIN self
            /\ LET sl == self["region_slices"].v
                   arr == self[a].v
               IN  /\ Len(sl) = NRegions
                   /\ sl[1][1] = 0
                   /\ sl[NRegions][2] = Len(arr)
                   /\ \A i \in 1..NRegions :
                        /\ sl[i][1] <= sl[i][2]
                        /\ i < NRegions => sl[i][2] = sl[i + 1][1]
                        /\ Slice(arr, sl[i]) = RegionRows(i)

C5_Witness ==
    /\ HdfDone /\ cfg.load_ids
    /\ cfg.regions = <<RegionB, RegionA>>
    /\ NFiles = 2
    /\ self["ids"].v = << <<1, 1>>, <<1, 2>>, <<2, 1>>, <<1, 2>>, <<2, 1>> >>
    /\ self["region_slices"].v = << <<0, 3>>, <<3, 5>> >>

\* the number of rows the regions before region i select in all sub-files
RowsBefore(i) == Len(Concat([k \in 1..(i - 1) |-> RegionRows(k)]))

\* every attribute the hierarchical read stacks
ArrayAttrs == ParticleAttrs \cup {"metallicities", "formation_times",
                                  "densities", "internal_energies"}

C7_RegionsNeverMerge ==
    (HdfDone /\ HasRegion /\ ~cfg.use_kdtree) =>
        \A a \in StackedArrays :
            LET sl == self["region_slices"].v
                arr == self[a].v
            IN  /\ \A i \in 1..NRegions : \A p \in Particles :
                      Count(p, Slice(arr, sl[i])) =
                          IF InsidePeriodic(p, i) THEN 1 ELSE 0
                /\ PairwiseDisjoint =>
                      \A p \in Particles :
                          Cardinality({i \in 1..NRegions :
                                         p \in Range(Slice(arr, sl[i]))}) <= 1

C7_Witness ==
    /\ HdfDone /\ cfg.load_ids
    /\ cfg.regions = <<RegionB, RegionA>>
    /\ Len(self["ids"].v) = 5
    /\ \E p \in Particles :
          /\ InsidePeriodic(p, 1) /\ InsidePeriodic(p, 2)
          /\ Count(p, Slice(self["ids"].v, self["region_slices"].v[1])) = 1
          /\ Count(p, Slice(self["ids"].v, self["region_slices"].v[2])) = 1

\* what use_kdtree=False selects for region i: per sub-file, the rows of the
\* brute-force index list
BruteRows(i) ==
    Concat([f \in 1..NFiles |->
              Take(Dataset(f), BruteInds(files[f].coords, cfg.regions[i].pos,
                                         cfg.regions[i].rad, BoxSize))])

\* C8 as stated: a read with use_kdtree=True returns, region by region, the
\* rows the brute-force selection returns, in the same order, for every
\* buffer and also for particles at distance exactly the radius
C8_KDTreeEqualsBruteForce ==
    (HdfDone /\ HasRegion /\ cfg.use_kdtree) =>
        \A a \in StackedArrays : \A i \in 1..NRegions :
            Slice(self[a].v, self["region_slices"].v[i]) = BruteRows(i)

\* C9: the brute-force tests are strict: a particle at distance exactly the
\* radius is left out and every particle closer than the radius is taken,
\* the distance being the one the path computes (periodic in the
\* hierarchical read, plain to the first centre in the binary read)
C9_StrictRadiusTest ==
    /\ (HdfDone /\ HasRegion /\ ~cfg.use_kdtree) =>
          \A a \in StackedArrays : \A i \in 1..NRegions : \A p \in Particles :
              LET rows == Range(Slice(self[a].v, self["region_slices"].v[i]))
                  rad == cfg.regions[i].rad
              IN  /\ PeriodicDist2(p, i) = rad * rad => p \notin rows
                  /\ PeriodicDist2(p, i) < rad * rad => p \in rows
    /\ (BinDone /\ HasRegion /\ files[1].hdr_total # 0) =>
          \A a \in {"ids", "coordinates", "velocities"} : \A p \in Particles :
              LET rad == cfg.regions[1].rad
              IN  /\ PlainDist2(p, 1) = rad * rad => p \notin Range(self[a].v)
                  /\ PlainDist2(p, 1) < rad * rad => p \in Range(self[a].v)

C9_Witness ==
    /\ BinDone
    /\ cfg.regions = <<RegionB, RegionA>>
    /\ \E p \in Particles : PlainDist2(p, 1) = 25 /\ p \notin Range(self["ids"].v)
    /\ \E p \in Particles : PlainDist2(p, 1) = 9 /\ p \in Range(self["ids"].v)

\* C10 as stated: both the hierarchical brute-force read and the binary read
\* select exactly the particles whose minimum-image distance to the centre
\* is below the radius
C10_PeriodicInBothPaths ==
    /\ (HdfDone /\ HasRegion /\ ~cfg.use_kdtree) =>
          \A a \in StackedArrays : \A i \in 1..NRegions : \A p \in Particles :
              p \in Range(Slice(self[a].v, self["region_slices"].v[i]))
                  <=> InsidePeriodic(p, i)
    /\ (BinDone /\ HasRegion /\ files[1].hdr_total # 0) =>
          \A p \in Particles :
              p \in Range(self["coordinates"].v) <=> InsidePeriodic(p, 1)

\* the hierarchical half of C10, which the code does satisfy
C10_HierarchicalIsPeriodic ==
    (HdfDone /\ HasRegion /\ ~cfg.use_kdtree) =>
        \A a \in StackedArrays : \A i \in 1..NRegions : \A p \in Particles :
            p \in Range(Slice(self[a].v, self["region_slices"].v[i]))
                <=> InsidePeriodic(p, i)

----------------------------------------------------------------------------
(* Claims about read_parameters (SpecParams)                               *)

\* read_parameters has returned
ParamsRead == pc \in {"params_done", "done"}

\* the metadata of the file read_parameters ran on
FirstMeta == files[1].meta

\* the name a unit has in the file
UnitFileName(u) ==
    CASE u = "unit_length_in_cm" -> "UnitLength_in_cm"
      [] u = "unit_mass_in_g" -> "UnitMass_in_g"
      [] u = "unit_velocity_in_cm_per_s" -> "UnitVelocity_in_cm_per_s"

\* the groups of a hierarchical file that carry the name
InHeader(n) ==
    cfg.fmt = 3 /\ FirstMeta.has_header /\ n \in DOMAIN FirstMeta.Header

InParameters(n) ==
    cfg.fmt = 3 /\ FirstMeta.has_parameters /\ n \in DOMAIN FirstMeta.Parameters

FileGives(n) == InHeader(n) \/ InParameters(n)

\* how often a warning was emitted
Emitted(w) == Cardinality({k \in 1..Len(warned) : warned[k] = w})

\* the unit comes neither from the file nor from the constructor
Defaulted(u) == ~FileGives(UnitFileName(u)) /\ u \notin DOMAIN cfg.units

\* C17: after read_parameters every unit is defined; a unit given neither by
\* the file nor by the constructor has its default and exactly one warning,
\* every other unit has no warning
C17_UnitsDefinedOrDefaulted ==
    ParamsRead =>
        \A u \in Units :
            /\ u \in DOMAIN params
            /\ params[u] # NoneV
            /\ Defaulted(u) => params[u] = DefaultUnit(u)
            /\ Emitted(UnitWarning(u)) = IF Defaulted(u) THEN 1 ELSE 0

C17_Witness ==
    /\ ParamsRead /\ cfg.fmt = 3
    /\ DOMAIN cfg.units = {"unit_mass_in_g"}
    /\ InHeader("UnitLength_in_cm") /\ ~FileGives("UnitMass_in_g")
    /\ params["unit_velocity_in_cm_per_s"] = <<"1.0e5">>
    /\ params["unit_mass_in_g"] = <<"override", "unit_mass_in_g">>
    /\ Emitted(UnitWarning("unit_velocity_in_cm_per_s")) = 1
    /\ Emitted(UnitWarning("unit_mass_in_g")) = 0
    /\ Emitted(UnitWarning("unit_length_in_cm")) = 0

\* C18: a unit passed to the constructor is replaced by the file's value when
\* the Header or the Parameters group carries the unit, and is kept, without
\* default and without warning, when the file omits it
C18_OverrideOnlyWhenFileOmits ==
    (ParamsRead /\ cfg.fmt = 3) =>
        \A u \in DOMAIN cfg.units :
            IF FileGives(UnitFileName(u))
            THEN /\ params[u] # cfg.units[u]
                 /\ params[u] \in {<<"Header", UnitFileName(u)>>,
                                   <<"Parameters", UnitFileName(u)>>}
                 /\ params[u][1] = "Header" => InHeader(UnitFileName(u))
                 /\ params[u][1] = "Parameters" => InParameters(UnitFileName(u))
            ELSE /\ params[u] = cfg.units[u]
                 /\ Emitted(UnitWarning(u)) = 0

C18_Witness ==
    /\ ParamsRead /\ cfg.fmt = 3
    /\ DOMAIN cfg.units = {"unit_length_in_cm", "unit_velocity_in_cm_per_s"}
    /\ InHeader("UnitLength_in_cm") /\ ~InParameters("UnitLength_in_cm")
    /\ params["unit_length_in_cm"] = <<"Header", "UnitLength_in_cm">>
    /\ params["unit_velocity_in_cm_per_s"] =
          <<"override", "unit_velocity_in_cm_per_s">>
    /\ Emitted(UnitWarning("unit_velocity_in_cm_per_s")) = 0

\* C19 as stated: a hierarchical file without HubbleParam in either group
\* gives h = 0.7 and exactly one warning in all
C19_ExactlyOneDiagnostic ==
    (ParamsRead /\ cfg.fmt = 3 /\ ~FileGives("HubbleParam")) =>
        /\ params["h"] = <<"0.7">>
        /\ Len(warned) = 1

\* C19, amended: such a file gives h = 0.7 and exactly one HubbleParam
\* warning; the other warnings are one for each defaulted unit and one for a
\* missing Hubble, so the HubbleParam warning is the only one exactly when
\* the units and Hubble are given
C19_OneHubbleParamDiagnostic ==
    (ParamsRead /\ cfg.fmt = 3 /\ ~FileGives("HubbleParam")) =>
        /\ params["h"] = <<"0.7">>
        /\ Emitted("No value for HubbleParam found!") = 1
        /\ Len(warned) = 1 + Cardinality({u \in Units : Defaulted(u)})
                           + (IF FileGives("Hubble") THEN 0 ELSE 1)

C19_Witness ==
    /\ ParamsRead /\ cfg.fmt = 3
    /\ ~FileGives("HubbleParam") /\ InHeader("Hubble")
    /\ \A u \in Units : ~Defaulted(u)
    /\ params["h"] = <<"0.7">>
    /\ warned = <<"No value for HubbleParam found!">>

\* the attributes C20 names: <<name in the file, attribute>>
PrecedenceAttrs == CommonAttrs \ {<<"NSample", "nsample">>}

\* C20 as stated: an attribute present in the Header takes the Header's
\* value, and the Parameters value is used only when the Header lacks it
C20_HeaderPrecedence ==
    (ParamsRead /\ cfg.fmt = 3) =>
        \A pr \in PrecedenceAttrs :
            /\ InHeader(pr[1]) => params[pr[2]] = <<"Header", pr[1]>>
            /\ (~InHeader(pr[1]) /\ InParameters(pr[1])) =>
                  params[pr[2]] = <<"Parameters", pr[1]>>

----------------------------------------------------------------------------
(* Claims about failing and partial reads (Spec, SpecRequest)              *)

\* the particle lies inside region i in the plain metric
InsidePlain(row, i) ==
    cfg.regions[i].rad > 0
    /\ PlainDist2(row, i) < cfg.regions[i].rad * cfg.regions[i].rad

\* C11 as stated: a binary read with N >= 2 regions returns the particles of
\* every region and its region_offsets has an entry for each of them
C11_BinaryAppliesEveryRegion ==
    (BinDone /\ NRegions >= 2 /\ files[1].hdr_total # 0) =>
        /\ \A i \in 1..NRegions : \A p \in Particles :
              InsidePlain(p, i) => p \in Range(self["ids"].v)
        /\ Len(self["region_offsets"].v) >= NRegions

\* sub-file f matches no region
NoMatch(f) == \A i \in 1..NRegions : RegionInds(f)[i] = <<>>

\* C12 as stated: a hierarchical region read with a sub-file that matches no
\* region completes, that sub-file adds no row, and the result has N slices
C12_EmptyMatchMergesNormally ==
    (cfg.fmt = 3 /\ HasRegion /\ AnyLoad /\ pc \in {"done", "raised"}
        /\ \E f \in 1..NFiles : NoMatch(f)) =>
        /\ pc = "done"
        /\ cfg.load_ids =>
              /\ "region_slices" \in DOMAIN self
              /\ Len(self["region_slices"].v) = NRegions
              /\ \A i \in 1..NRegions :
                    Slice(self["ids"].v, self["region_slices"].v[i])
                        = RegionRows(i)

\* the half of C12 the code satisfies: when the first sub-file has a match
\* and the group holds no Density or InternalEnergy, the sub-files without
\* a match add no row and the merge completes with N slices
C12_LaterEmptyMatchMerges ==
    (cfg.fmt = 3 /\ HasRegion /\ cfg.load_ids /\ pc \in {"done", "raised"}
        /\ ~NoMatch(1) /\ files[1].has \subseteq {"Masses"}) =>
        /\ pc = "done"
        /\ Len(self["region_slices"].v) = NRegions
        /\ \A i \in 1..NRegions :
              Slice(self["ids"].v, self["region_slices"].v[i]) = RegionRows(i)

\* C13 as stated: in a finished read no field whose load flag is false is set
C13_UnrequestedFieldsUnset ==
    pc = "done" => \A a \in ParticleAttrs : ~Requested(a) => a \notin DOMAIN self

\* the half of C13 the code satisfies: the hierarchical read and the read
\* without any flag
C13_HierarchicalFieldsUnset ==
    (pc = "done" /\ (cfg.fmt = 3 \/ ~AnyLoad)) =>
        \A a \in ParticleAttrs : ~Requested(a) => a \notin DOMAIN self

\* C14 as stated: when a hierarchical read has raised, no per-particle
\* attribute is set on the instance
C14_AllOrNothing ==
    (pc = "raised" /\ cfg.fmt = 3) => DOMAIN self \cap ArrayAttrs = {}

\* the particles of the target type the sub-files hold, summed
SumOfCounts == Len(MergedRows)

\* C15 as stated: a binary read whose sub-file counts do not add up to the
\* total of the header ends with an error
C15_CountMismatchIsFatal ==
    (cfg.fmt # 3 /\ AnyLoad /\ pc \in {"done", "raised"}
        /\ SumOfCounts # files[1].hdr_total) =>
        pc = "raised"

----------------------------------------------------------------------------
(* Claims about the read modes and the optional datasets (SpecModes)       *)

\* the flattened index vector of sub-file f and the lengths of its regions
FlatInds(f) == Concat(RegionInds(f))

Lens(f) == RegionLens(RegionInds(f))

\* a hierarchical region read has run read_files on every sub-file
RegionReadRun ==
    cfg.fmt = 3 /\ HasRegion /\ AnyLoad /\ pc \in {"stack", "done", "raised"}

\* C23 as stated: for the index vector of every sub-file, read_mode 2 gives
\* the same per-region arrays as read_mode 1 for a one-column dataset (ids,
\* masses, metallicities, formation times, internal energies), for the
\* velocities and for the densities
C23_ReadModesEquivalent ==
    RegionReadRun =>
        \A f \in 1..NFiles :
            /\ RegionReadMode(2, f, FlatInds(f), Lens(f))
                  = RegionReadMode(1, f, FlatInds(f), Lens(f))
            /\ RegionVelsMode(2, f, FlatInds(f), Lens(f))
                  = RegionVelsMode(1, f, FlatInds(f), Lens(f))
            /\ ("Density" \in files[f].has /\ FlatInds(f) # <<>>) =>
                  ReadDensityMode(2, f, FlatInds(f), Lens(f))
                      = ReadDensityMode(1, f, FlatInds(f), Lens(f))

\* the part of C23 the code satisfies: every dataset but Density
C23_EquivalentButDensity ==
    RegionReadRun =>
        \A f \in 1..NFiles :
            /\ RegionReadMode(2, f, FlatInds(f), Lens(f))
                  = RegionReadMode(1, f, FlatInds(f), Lens(f))
            /\ RegionVelsMode(2, f, FlatInds(f), Lens(f))
                  = RegionVelsMode(1, f, FlatInds(f), Lens(f))

\* an index vector with a repeated index and one that is not ascending
C23_Probe ==
    /\ RegionReadRun
    /\ cfg.read_mode = 2
    /\ pc = "done"
    /\ \E f \in 1..NFiles : \E a, b \in 1..Len(FlatInds(f)) :
          a < b /\ FlatInds(f)[a] = FlatInds(f)[b]
    /\ \E f \in 1..NFiles : \E a, b \in 1..Len(FlatInds(f)) :
          a < b /\ FlatInds(f)[a] > FlatInds(f)[b]

\* the per-particle arrays of a result
RowAttrs == {a \in ArrayAttrs \cup {"internal_energy", "density"} :
                a \in DOMAIN self /\ self[a].k = "arr"}

\* every sub-file holds a Density dataset and a particle of some region
DensityRegionRead ==
    /\ RegionReadRun
    /\ \A f \in 1..NFiles : "Density" \in files[f].has /\ ~NoMatch(f)

\* C24 as stated: the per-particle arrays of a finished read have the same
\* rows, and a region read in read_mode 1 of sub-files that hold Density
\* finishes with the densities of the selected particles, region by region
C24_RowAlignment ==
    /\ pc = "done" => \A a, b \in RowAttrs : self[a].v = self[b].v
    /\ (DensityRegionRead /\ cfg.read_mode = 1 /\ pc \in {"done", "raised"}) =>
          /\ pc = "done"
          /\ \A i \in 1..NRegions :
                Slice(self["densities"].v, self["region_slices"].v[i])
                    = RegionRows(i)

\* the part of C24 the code satisfies: the arrays of a finished read have the
\* same rows, and a region read in read_mode 2 returns the densities of the
\* selected particles
C24_AlignedWhenFinished ==
    /\ pc = "done" => \A a, b \in RowAttrs : self[a].v = self[b].v
    /\ (DensityRegionRead /\ cfg.read_mode = 2 /\ pc = "done") =>
          \A i \in 1..NRegions :
              Slice(self["densities"].v, self["region_slices"].v[i])
                  = RegionRows(i)

----------------------------------------------------------------------------
(* Claims about read_binary_snapshot (SpecBinary, Spec)                    *)

\* the blocks of sub-file f the read has sought
SoughtBlocks(f) == {seeks[k].block : k \in {j \in 1..Len(seeks) : seeks[j].f = f}}

\* the sub-files that hold particles of the target type
Contributing == {f \in 1..NFiles : Len(files[f].coords) > 0}

\* C21 as stated: after a binary read that found particles, masses is the
\* table scalar and no mass block was read if the table entry of the type is
\* non-zero, and a vector with one entry per returned particle if it is zero
C21_MassesFollowMassTable ==
    (BinDone /\ files[1].hdr_total # 0) =>
        IF files[1].mass_table # 0
        THEN /\ self["masses"] = Scalar(files[1].mass_table)
             /\ \A f \in 1..NFiles : "MASS" \notin SoughtBlocks(f)
        ELSE /\ self["masses"].k = "arr"
             /\ Len(self["masses"].v) = Len(self["ids"].v)

\* the per-particle masses of the returned particles are all the same
EqualMasses ==
    \A a, b \in Range(self["ids"].v) : RowMass(a) = RowMass(b)

\* C21 corrected: a binary read that completes gives a zero-length masses
\* array if the header total is zero; else the table scalar, with no mass
\* block read, if the table entry is non-zero; else the masses of the mass
\* block, read from every sub-file that holds the type: the single value if
\* the returned ones are all equal, the vector aligned with ids if not
C21_MassesByTableOrBlock ==
    BinDone =>
        IF files[1].hdr_total = 0 THEN self["masses"] = Arr(<<>>)
        ELSE IF files[1].mass_table # 0
        THEN /\ self["masses"] = Scalar(files[1].mass_table)
             /\ \A f \in 1..NFiles : "MASS" \notin SoughtBlocks(f)
        ELSE /\ \A f \in Contributing : "MASS" \in SoughtBlocks(f)
             /\ IF EqualMasses
                THEN \E row \in Range(self["ids"].v) :
                        self["masses"] = Scalar(RowMass(row))
                ELSE self["masses"] = Arr(self["ids"].v)

\* a read that returns three particles of two different masses, and so a
\* masses vector
C21_Witness ==
    /\ BinDone
    /\ files[1].mass_table = 0
    /\ self["masses"].k = "arr"
    /\ Len(self["masses"].v) = 3
    /\ ~EqualMasses

\* the read is collecting the sub-files or about to merge them
Collecting == pc \in {"seq", "pool", "stack", "binary"}

\* C22: the velocities of a finished read that hold a row have been
\* multiplied by sqrt(1 + redshift) exactly once, in either path, with any
\* number of sub-files and with or without a region query; while the
\* sub-files are being collected the per-sub-file velocities are unscaled
\* and the instance has no velocities yet
C22_VelocitiesScaledOnce ==
    /\ (pc = "done" /\ "velocities" \in DOMAIN self
            /\ Len(self["velocities"].v) > 0) =>
          self["velocities"].m = 1
    /\ Collecting =>
          /\ "velocities" \notin DOMAIN self
          /\ cfg.fmt = 3 =>
                \A i \in 1..Len(snapdata) : snapdata[i].v[3].m = 0

\* a binary region read of two sub-files that returns three velocity rows
C22_Witness ==
    /\ BinDone
    /\ NFiles = 2
    /\ Contributing = {1, 2}
    /\ HasRegion
    /\ Len(self["velocities"].v) = 3
    /\ self["velocities"].m = 1

\* the 4-byte words of a block of sub-file f that belong to the particles of
\* type t: word <<kind, t, k, c>> is component c of particle k of the type
TypeWords(kind, t, count, width) ==
    [n \in 1..(count * width) |->
        <<kind, t, ((n - 1) \div width) + 1, ((n - 1) % width) + 1>>]

\* the data of a block: the particles of type 0, then of type 1, ...
BlockWords(f, kind, width) ==
    Concat([i \in 1..NTypes |->
              TypeWords(kind, i - 1, NpartByType(f)[i - 1], width)])

\* n words that are no particle data
Filler(n, what) == [i \in 1..n |-> <<what>>]

\* the label record of a block and the size marker on either side of its data
LabelWords == Filler(LabelBytes \div ItemBytes, "label")

MarkerWords == Filler(BufferBytes \div ItemBytes, "size")

\* sub-file f up to the end of its identifier block, word by word: every
\* block is a label record, a size marker, the data and a size marker
FileWords(f) ==
    LabelWords \o MarkerWords
        \o Filler((HeaderBytes - 2 * BufferBytes) \div ItemBytes, "header")
        \o MarkerWords
    \o LabelWords \o MarkerWords \o BlockWords(f, "POS", 3) \o MarkerWords
    \o LabelWords \o MarkerWords \o BlockWords(f, "VEL", 3) \o MarkerWords
    \o LabelWords \o MarkerWords \o BlockWords(f, "ID", 1) \o MarkerWords

\* the words np.fromfile returns after the seek sk on a file of these words
Window(words, sk) ==
    SubSeq(words, (sk.offset \div ItemBytes) + 1,
           (sk.offset \div ItemBytes) + sk.count)

\* the words of a block per particle
Width(block) == IF block = "ID" THEN 1 ELSE 3

\* the byte offset at which the data of a block that holds a particle starts
DataStart(words, block) ==
    ItemBytes * ((CHOOSE n \in 1..Len(words) :
                    /\ words[n][1] = block
                    /\ \A m \in 1..(n - 1) : words[m][1] # block) - 1)

\* the seeks on sub-file f, in the order they were made
SeeksOn(f) == SelectSeq(seeks, LAMBDA sk : sk.f = f)

\* C25: every read of the position, velocity and identifier block starts on
\* a word boundary, at the data start of its block plus the bytes of the
\* particles of the types before the target type, and returns the words of
\* the target type's particles, all of them and nothing else; the data of
\* consecutive blocks start apart by the block of all types plus the framing
C25_BinaryWindows ==
    \A f \in 1..NFiles : \A words \in {FileWords(f)} : \A sks \in {SeeksOn(f)} :
        /\ \A k \in 1..Len(sks) :
              sks[k].block \in {"POS", "VEL", "ID"} =>
                 /\ sks[k].offset % ItemBytes = 0
                 /\ Window(words, sks[k])
                       = TypeWords(sks[k].block, cfg.ptype,
                                   Len(files[f].coords), Width(sks[k].block))
                 /\ sks[k].offset
                       = DataStart(words, sks[k].block)
                         + Width(sks[k].block) * ItemBytes
                             * SumBelow(NpartByType(f), cfg.ptype)
        /\ \A k \in 1..(Len(sks) - 1) :
              sks[k].block \in {"POS", "VEL"} =>
                 DataStart(words, sks[k + 1].block)
                     - DataStart(words, sks[k].block)
                   = 3 * ItemBytes * SumBelow(NpartByType(f), NTypes)
                     + 2 * BufferBytes + LabelBytes

\* a finished read of the last type from a sub-file that also holds two
\* particles of earlier types
C25_Witness ==
    /\ BinDone
    /\ cfg.ptype = 5
    /\ NFiles = 1
    /\ Len(files[1].coords) = 2
    /\ SumBelow(NpartByType(1), cfg.ptype) = 2
    /\ Len(seeks) >= 3
    /\ seeks[3].block = "ID"
    /\ seeks[3].offset = 300 + 2 * (12 * 4 + 24) + 2 * 4

\* the attributes of the unit-system record
UnitRecord ==
    {"unit_length_in_cm", "unit_mass_in_g", "unit_velocity_in_cm_per_s",
     "unit_time_in_s", "gravitational_constant", "h", "hubble_constant",
     "scale_factor", "redshift", "Omega0", "OmegaLambda", "critical_density"}

\* attribute a has in now the value (or the absence) it has in first
SameAttr(first, now, a) ==
    /\ a \in DOMAIN now <=> a \in DOMAIN first
    /\ a \in DOMAIN first => now[a] = first[a]

C26_ImmutableIfHeadersAgree ==
    (cfg.fmt = 3 \/ \A f \in 1..NFiles : files[f].meta = files[1].meta) =>
        \A first \in {read_parameters(InitUnits(cfg), files[1].meta, cfg.fmt)} :
            \A a \in UnitRecord : SameAttr(first.attrs, params, a)

\* no particle of the target type lies inside a region, in either metric
NoneInside ==
    \A p \in Particles : \A i \in 1..NRegions :
        ~InsidePlain(p, i) /\ ~InsidePeriodic(p, i)

\* C27 as stated: a binary region read with no particle inside the region
\* finishes without an error, with zero-length ids, coordinates, velocities
\* and masses, whatever the mass-table entry of the type
C27_EmptyBinaryRegion ==
    (cfg.fmt # 3 /\ AnyLoad /\ HasRegion /\ NoneInside
        /\ pc \in {"done", "raised"}) =>
        /\ pc = "done"
        /\ \A a \in ParticleAttrs : self[a] = Arr(<<>>)

\* the part of C27 the code satisfies: with a table mass the read finishes
\* with zero-length ids, coordinates and velocities
C27_EmptyWithTableMass ==
    (cfg.fmt # 3 /\ AnyLoad /\ HasRegion /\ NoneInside
        /\ files[1].mass_table # 0 /\ pc \in {"done", "raised"}) =>
        /\ pc = "done"
        /\ \A a \in {"ids", "coordinates", "velocities"} : self[a].v = <<>>


----------------------------------------------------------------------------
(* Claims about the sub-file order with several all-digit columns          *)
(* (SpecLocate)                                                            *)

\* the all-digit columns whose values differ between the matched paths
VaryingDigitColumns ==
    {c \in 1..Len(ColsOf(1)) :
        /\ DigitColumn(c)
        /\ \E i, j \in 1..Len(matched) :
              ToInt(StrSplit(matched[i])[c]) # ToInt(StrSplit(matched[j])[c])}

\* snapshot_files is strictly ascending in column c
StrictlyAscending(c) ==
    \A i \in 1..(Len(snapshot_files) - 1) :
        ToInt(StrSplit(snapshot_files[i])[c])
            < ToInt(StrSplit(snapshot_files[i + 1])[c])

\* C28: when the matched paths have exactly one all-digit column whose
\* values differ between the paths (the sub-file number), with all values
\* distinct, reorder_subfiles returns the paths strictly ascending in that
\* column, also when an earlier all-digit column has the same value in every
\* path
C28_SortedByVaryingColumn ==
    (pc # "init" /\ Len(matched) >= 2 /\ HasDigitColumn
        /\ Cardinality(VaryingDigitColumns) = 1) =>
        \A c \in VaryingDigitColumns :
            (\A i, j \in 1..Len(matched) :
                i # j => ToInt(StrSplit(matched[i])[c])
                            # ToInt(StrSplit(matched[j])[c]))
            => /\ pc \in {"read_snapshot", "params_done"}
               /\ StrictlyAscending(c)

\* the same, when the varying column is the first all-digit column
C28_SortedWhenVaryingIsFirst ==
    (pc # "init" /\ Len(matched) >= 2 /\ HasDigitColumn
        /\ VaryingDigitColumns = {FirstDigitColumn}) =>
        \A c \in VaryingDigitColumns :
            (\A i, j \in 1..Len(matched) :
                i # j => ToInt(StrSplit(matched[i])[c])
                            # ToInt(StrSplit(matched[j])[c]))
            => /\ pc \in {"read_snapshot", "params_done"}
               /\ StrictlyAscending(c)


----------------------------------------------------------------------------
(* Claims about the binary read of a type without particles                *)

\* the attributes a binary read with particles of the type assigns
BinaryReadAttrs ==
    ParticleAttrs \cup
        (IF cfg.ptype = 0 THEN {"internal_energy", "density"} ELSE {})

\* a binary read that took the early return of read_binary_snapshot
ZeroTotalRead == BinDone /\ files[1].hdr_total = 0

\* C29: after a binary read of a type the header reports no particle of, the
\* instance holds every attribute a read with particles assigns (ids,
\* coordinates, velocities, masses, and internal_energy and density for gas),
\* each a zero-length array
C29_ZeroTotalSameAttributes ==
    ZeroTotalRead =>
        \A a \in BinaryReadAttrs :
            /\ a \in DOMAIN self
            /\ self[a] = Arr(<<>>)

\* the same for the four attributes every type has
C29_ZeroTotalParticleAttrs ==
    ZeroTotalRead =>
        \A a \in ParticleAttrs :
            /\ a \in DOMAIN self
            /\ self[a] = Arr(<<>>)

====
